---- MODULE Spec2Model ----
(***************************************************************************)
(* Model of the DexArm blade loader: the motion planner (core/planner.py), *)
(* the command executor (core/executor.py), the simulator transport        *)
(* (core/transport.py), the controller facade (controller.py), the serial  *)
(* transport (core/serial_transport.py) and the pick-place workflow        *)
(* (workflows/pick_place.py), and the state machine of the older cycle     *)
(* (workflows/state_machine.py, workflows/states.py) over the arm          *)
(* controller of hardware/arm.py.                                          *)
(*                                                                         *)
(* Lengths are integers counting 1/400 mm, so that a coordinate can carry  *)
(* more precision than the two decimals the wire format keeps: one         *)
(* hundredth of a millimetre is 4 units.                                   *)
(***************************************************************************)
EXTENDS Integers, Sequences, FiniteSets, TLC

VARIABLES
    plan_args,        \* planner under test: [safe_z, current, target]
    plan_ret,         \* what the planning method returned or raised
    position,         \* BladeLoaderController._position
    is_homed,         \* BladeLoaderController._is_homed
    carrying_blade,   \* BladeLoaderController._carrying_blade
    suction_active,   \* BladeLoaderController._suction_active
    motors_enabled,   \* BladeLoaderController._motors_enabled
    safe_z,           \* MotionPlanner.safe_z of the controller's planner
    pending,          \* CommandQueue._pending
    history,          \* CommandQueue._history
    sent_commands,    \* MockTransport.sent_commands
    sim_position,     \* MockTransport.position
    sim_suction,      \* MockTransport._suction_state
    link,             \* behaviour of Transport.send: "ok", "raise", "noack"
    last,             \* the controller operation that ran last, and its outcome
    nops,             \* number of controller operations run so far
    call,             \* the CommandQueue method called last, and what it returned
    lock,             \* SerialTransport._lock: "free" or the thread holding it
    pc,               \* where each thread is inside its SerialTransport call
    doing,            \* the SerialTransport call each thread is in, or made last
    got,              \* the lines each thread has read in its call so far
    ret,              \* what each thread's last completed call returned or raised
    inbuf,            \* the serial input buffer: lines from the arm, not yet read
    outbuf,           \* commands written to the serial port, not yet answered
    ncalls,           \* number of SerialTransport calls started so far
    wf,               \* PickPlaceWorkflow: _state and the configured positions
    wf_last,          \* the PickPlaceWorkflow method called last, and its outcome
    sm,               \* StateMachine, its StateContext and its ArmController
    app,              \* AppState: the is_running and is_paused flags
    req,              \* where each API request thread is inside its handler
    thr,              \* where each thread is inside its controller operation
    tags              \* who enqueued each queued and each sent command; the thread running

plan_vars == <<plan_args, plan_ret>>
arm_vars  == <<position, is_homed, carrying_blade, suction_active, motors_enabled>>
exec_vars == <<pending, history>>
sim_vars  == <<sent_commands, sim_position, sim_suction>>
ctl_vars  == <<arm_vars, safe_z, exec_vars, sim_vars, link, last, nops>>
call_vars == <<call>>
serial_vars == <<lock, pc, doing, got, ret, inbuf, outbuf, ncalls>>
wf_vars   == <<wf, wf_last>>
sm_vars   == <<sm>>
cycle_vars == <<app, req>>
queue_vars == <<thr, tags>>
vars      == <<plan_vars, ctl_vars, call_vars, serial_vars, wf_vars, sm_vars, cycle_vars, queue_vars>>

----------------------------------------------------------------------------
(* Numbers *)

\* n millimetres in model units
Mm(n) == n * 400

\* model units per hundredth of a millimetre
Cent == Mm(1) \div 100

Max(a, b) == IF a >= b THEN a ELSE b

\* F applied to the value of v, with v computed once
Let(v, F(_)) == CHOOSE out \in {F(x) : x \in {v}} : TRUE

\* Optional[float]: <<>> is None, <<v>> is the value v
None == <<>>
Some(v) == <<v>>

\* f"{v:.2f}": the decimal text with two digits, as its number of hundredths
\* (round to nearest, a tie to the even hundredth)
Fmt2(v) ==
    LET q == v \div Cent
        r == v % Cent
    IN  IF 2 * r < Cent THEN q
        ELSE IF 2 * r > Cent THEN q + 1
        ELSE IF q % 2 = 0 THEN q ELSE q + 1

\* float("<two-decimal text>"): the value of a hundredths text in model units
ParseFloat(h) == h * Cent

----------------------------------------------------------------------------
(* core/types.py *)

Position(x, y, z) == [x |-> x, y |-> y, z |-> z]

with_z(pos, new_z) == Position(pos.x, pos.y, new_z)

DEFAULT_WORKSPACE ==
    [x_min |-> Mm(-300), x_max |-> Mm(300),
     y_min |-> Mm(100),  y_max |-> Mm(450),
     z_min |-> Mm(-100), z_max |-> Mm(200),
     max_reach |-> Mm(400)]

\* pos.reach() > max_reach, i.e. x^2 + y^2 > max_reach^2, computed on the
\* millimetre and sub-millimetre parts separately to stay within machine
\* integers (exact for |x|, |y| <= 600 mm and max_reach a whole millimetre)
ReachExceeds(pos, max_reach) ==
    LET u  == Mm(1)
        xq == pos.x \div u
        xr == pos.x % u
        yq == pos.y \div u
        yr == pos.y % u
        rq == max_reach \div u
        D  == xq * xq + yq * yq - rq * rq
        B  == 2 * u * (xq * xr + yq * yr) + xr * xr + yr * yr
        K  == 6 * u
    IN  IF D > K THEN TRUE
        ELSE IF D < -K THEN FALSE
        ELSE u * u * D + B > 0

\* WorkspaceLimits.validate: "OK" or the kind of violation
validate(ws, pos) ==
    IF ~(ws.x_min <= pos.x /\ pos.x <= ws.x_max) THEN "X"
    ELSE IF ~(ws.y_min <= pos.y /\ pos.y <= ws.y_max) THEN "Y"
    ELSE IF ~(ws.z_min <= pos.z /\ pos.z <= ws.z_max) THEN "Z"
    ELSE IF ReachExceeds(pos, ws.max_reach) THEN "Reach"
    ELSE "OK"

FEEDRATE == 3000

MoveCommand(x, y, z) ==
    [type |-> "Move", x |-> x, y |-> y, z |-> z, feedrate |-> FEEDRATE]
WaitCommand == [type |-> "Wait"]
HomeCommand == [type |-> "Home"]
SuctionCommand(action) == [type |-> "Suction", action |-> action]
DelayCommand(ms) == [type |-> "Delay", milliseconds |-> ms]
SetModuleCommand(module) == [type |-> "SetModule", module |-> module]
MotorsCommand(enable) == [type |-> "Motors", enable |-> enable]
EmergencyStopCommand == [type |-> "EmergencyStop"]

changes_xy(cmd) == cmd.x # None \/ cmd.y # None
is_z_only(cmd) == cmd.z # None /\ cmd.x = None /\ cmd.y = None

\* a line of G-code: the command word and its parameters
Wire(code, f, p, x, y, z) ==
    [code |-> code, f |-> f, p |-> p, x |-> x, y |-> y, z |-> z]
Word(code) == Wire(code, None, None, None, None, None)

FmtOpt(v) == IF v = None THEN None ELSE Some(Fmt2(v[1]))

SuctionCode(action) ==
    CASE action = "on" -> "M1000"
      [] action = "blow" -> "M1001"
      [] action = "release" -> "M1002"
      [] action = "off" -> "M1003"

ModuleNumber(module) ==
    CASE module = "pen" -> 0
      [] module = "laser" -> 1
      [] module = "pneumatic" -> 2
      [] module = "3d_print" -> 3

\* Command.to_gcode
to_gcode(cmd) ==
    CASE cmd.type = "Move" ->
            Wire("G1", Some(cmd.feedrate), None,
                 FmtOpt(cmd.x), FmtOpt(cmd.y), FmtOpt(cmd.z))
      [] cmd.type = "Wait" -> Word("M400")
      [] cmd.type = "Home" -> Word("M1112")
      [] cmd.type = "Suction" -> Word(SuctionCode(cmd.action))
      [] cmd.type = "Delay" ->
            Wire("G4", None, Some(cmd.milliseconds), None, None, None)
      [] cmd.type = "SetModule" ->
            Wire("M888", None, Some(ModuleNumber(cmd.module)), None, None, None)
      [] cmd.type = "Motors" -> Word(IF cmd.enable THEN "M17" ELSE "M84")
      [] cmd.type = "EmergencyStop" -> Word("M410")

----------------------------------------------------------------------------
(* core/planner.py *)

VACUUM_DELAY_MS == 200
RELEASE_DELAY_MS == 100

Returned(commands) == [raised |-> "none", commands |-> commands]
Raised(kind) == [raised |-> kind, commands |-> <<>>]

\* MotionPlanner._validate_position: TRUE when it raises ValueError
validate_position_skips_z(pos) ==
    validate(DEFAULT_WORKSPACE, Position(pos.x, pos.y, 0)) # "OK"

validate_position_raises(pos) ==
    validate(DEFAULT_WORKSPACE, pos) # "OK"

plan_direct_move(target) ==
    IF validate_position_raises(target) THEN Raised("ValueError")
    ELSE Returned(<<MoveCommand(Some(target.x), Some(target.y), Some(target.z)),
                    WaitCommand>>)

\* plan_safe_move without the Wait added to an empty plan
plan_safe_move_may_be_empty(sz, current, target) ==
    IF validate_position_raises(target) THEN Raised("ValueError")
    ELSE
    LET step1 == IF current.z < sz
                 THEN <<MoveCommand(None, None, Some(sz)), WaitCommand>>
                 ELSE <<>>
        step2 == IF current.x # target.x \/ current.y # target.y
                 THEN <<MoveCommand(Some(target.x), Some(target.y), None),
                        WaitCommand>>
                 ELSE <<>>
        move_z == Max(current.z, sz)
        step3 == IF target.z # move_z
                 THEN <<MoveCommand(None, None, Some(target.z)), WaitCommand>>
                 ELSE <<>>
    IN  Returned(step1 \o step2 \o step3)

\* plan_safe_move with steps 1 and 2 in the wrong order
plan_safe_move_xy_first(sz, current, target) ==
    IF validate_position_raises(target) THEN Raised("ValueError")
    ELSE
    LET step1 == IF current.z < sz
                 THEN <<MoveCommand(None, None, Some(sz)), WaitCommand>>
                 ELSE <<>>
        step2 == IF current.x # target.x \/ current.y # target.y
                 THEN <<MoveCommand(Some(target.x), Some(target.y), None),
                        WaitCommand>>
                 ELSE <<>>
        move_z == Max(current.z, sz)
        step3 == IF target.z # move_z
                 THEN <<MoveCommand(None, None, Some(target.z)), WaitCommand>>
                 ELSE <<>>
        commands == step2 \o step1 \o step3
    IN  Returned(IF commands = <<>> THEN <<WaitCommand>> ELSE commands)

plan_safe_move(sz, current, target) ==
    IF validate_position_raises(target) THEN Raised("ValueError")
    ELSE
    LET step1 == IF current.z < sz
                 THEN <<MoveCommand(None, None, Some(sz)), WaitCommand>>
                 ELSE <<>>
        step2 == IF current.x # target.x \/ current.y # target.y
                 THEN <<MoveCommand(Some(target.x), Some(target.y), None),
                        WaitCommand>>
                 ELSE <<>>
        move_z == Max(current.z, sz)
        step3 == IF target.z # move_z
                 THEN <<MoveCommand(None, None, Some(target.z)), WaitCommand>>
                 ELSE <<>>
        commands == step1 \o step2 \o step3
    IN  Returned(IF commands = <<>> THEN <<WaitCommand>> ELSE commands)

\* plan_pick_sequence that turns the suction on after lowering
plan_pick_sequence_suction_late(sz, current, pick_pos) ==
    IF validate_position_raises(pick_pos) THEN Raised("ValueError")
    ELSE
    LET above_pick == with_z(pick_pos, sz)
        approach == plan_safe_move(sz, current, above_pick)
    IN  IF approach.raised # "none" THEN approach
        ELSE Returned(approach.commands \o
                <<MoveCommand(None, None, Some(pick_pos.z)), WaitCommand,
                  SuctionCommand("on"),
                  DelayCommand(VACUUM_DELAY_MS),
                  MoveCommand(None, None, Some(sz)), WaitCommand>>)

plan_pick_sequence(sz, current, pick_pos) ==
    IF validate_position_raises(pick_pos) THEN Raised("ValueError")
    ELSE
    LET above_pick == with_z(pick_pos, sz)
        approach == plan_safe_move(sz, current, above_pick)
    IN  IF approach.raised # "none" THEN approach
        ELSE Returned(approach.commands \o
                <<SuctionCommand("on"),
                  MoveCommand(None, None, Some(pick_pos.z)), WaitCommand,
                  DelayCommand(VACUUM_DELAY_MS),
                  MoveCommand(None, None, Some(sz)), WaitCommand>>)

\* plan_place_sequence without the wait after the lowering move
plan_place_sequence_no_wait(sz, current, place_pos) ==
    IF validate_position_raises(place_pos) THEN Raised("ValueError")
    ELSE
    LET above_place == with_z(place_pos, sz)
        approach == plan_safe_move(sz, current, above_place)
    IN  IF approach.raised # "none" THEN approach
        ELSE Returned(approach.commands \o
                <<MoveCommand(None, None, Some(place_pos.z)),
                  SuctionCommand("blow"),
                  DelayCommand(RELEASE_DELAY_MS),
                  SuctionCommand("off"),
                  MoveCommand(None, None, Some(sz)), WaitCommand>>)

plan_place_sequence(sz, current, place_pos) ==
    IF validate_position_raises(place_pos) THEN Raised("ValueError")
    ELSE
    LET above_place == with_z(place_pos, sz)
        approach == plan_safe_move(sz, current, above_place)
    IN  IF approach.raised # "none" THEN approach
        ELSE Returned(approach.commands \o
                <<MoveCommand(None, None, Some(place_pos.z)), WaitCommand,
                  SuctionCommand("blow"),
                  DelayCommand(RELEASE_DELAY_MS),
                  SuctionCommand("off"),
                  MoveCommand(None, None, Some(sz)), WaitCommand>>)

----------------------------------------------------------------------------
(* core/transport.py: the simulator, behind a link that can fail *)

REST_POSITION == Position(0, Mm(300), 0)

\* a response text: "ok", a position report ending in ok, or a text without ok
Response(text, x, y, z) == [text |-> text, x |-> x, y |-> y, z |-> z]
OkResponse == Response("ok", None, None, None)
ErrorResponse == Response("error", None, None, None)
PositionResponse(pos) ==
    Response("position ok", Some(Fmt2(pos.x)), Some(Fmt2(pos.y)), Some(Fmt2(pos.z)))

\* "ok" in response.lower()
ContainsOk(response) == response.text \in {"ok", "position ok"}

\* MockTransport._simulate_move
simulate_move(pos, gcode) ==
    Position(IF gcode.x # None THEN ParseFloat(gcode.x[1]) ELSE pos.x,
             IF gcode.y # None THEN ParseFloat(gcode.y[1]) ELSE pos.y,
             IF gcode.z # None THEN ParseFloat(gcode.z[1]) ELSE pos.z)

SuctionState(code) ==
    CASE code = "M1000" -> "on"
      [] code = "M1001" -> "blow"
      [] code = "M1002" -> "release"
      [] code = "M1003" -> "off"

\* MockTransport.send
MockSend(st, gcode) ==
    Let([st EXCEPT !.sent_commands = Append(@, gcode)], LAMBDA s1 :
        CASE gcode.code = "M1112" ->
                [st |-> [s1 EXCEPT !.sim_position = REST_POSITION],
                 response |-> OkResponse]
          [] gcode.code = "G1" ->
                [st |-> [s1 EXCEPT !.sim_position = simulate_move(@, gcode)],
                 response |-> OkResponse]
          [] gcode.code \in {"M1000", "M1001", "M1002", "M1003"} ->
                [st |-> [s1 EXCEPT !.sim_suction = SuctionState(gcode.code)],
                 response |-> OkResponse]
          [] gcode.code \in {"M114", "M895"} ->
                [st |-> s1, response |-> PositionResponse(s1.sim_position)]
          [] OTHER -> [st |-> s1, response |-> OkResponse])

\* Transport.send over a link lk: "ok" reaches the simulator; "raise" is a send
\* that raises (not connected, no acknowledgment in time); "noack" returns a
\* text without ok. A failed send is received by the transport but has no
\* effect on the simulated arm.
TransportOutcome(st, gcode, lk) ==
    IF lk = "ok"
    THEN Let(MockSend(st, gcode), LAMBDA r :
            [st |-> r.st, raised |-> FALSE, response |-> r.response])
    ELSE [st |-> [st EXCEPT !.sent_commands = Append(@, gcode)],
          raised |-> (lk = "raise"),
          response |-> ErrorResponse]

\* Transport.send over the link lk; a link "script" behaves for each send as
\* the next entry of st.faults says, and as "ok" once the entries are used up
TransportSend(st, gcode, lk) ==
    IF lk # "script" THEN TransportOutcome(st, gcode, lk)
    ELSE IF st.faults = <<>> THEN TransportOutcome(st, gcode, "ok")
    ELSE Let(st, LAMBDA s :
            TransportOutcome([s EXCEPT !.faults = Tail(@)], gcode, Head(s.faults)))

----------------------------------------------------------------------------
(* core/executor.py *)

CommandResult(command, gcode, response, success) ==
    [command |-> command, gcode |-> gcode, response |-> response,
     success |-> success]

\* CommandQueue._execute_one
execute_one(st, command, lk) ==
    Let(to_gcode(command), LAMBDA gcode :
    Let(TransportSend(st, gcode, lk), LAMBDA r :
        [st |-> r.st,
         result |-> IF r.raised
                    THEN CommandResult(command, gcode, ErrorResponse, FALSE)
                    ELSE CommandResult(command, gcode, r.response,
                                       ContainsOk(r.response))]))

enqueue(st, command) == [st EXCEPT !.pending = Append(@, command)]

enqueue_many(st, commands) == [st EXCEPT !.pending = @ \o commands]

\* the loop of execute_all that gives up at the first failed command
RECURSIVE execute_until_failure(_, _, _, _)
execute_until_failure(st, commands, lk, batch_results) ==
    IF commands = <<>>
    THEN [st |-> [st EXCEPT !.pending = <<>>], results |-> batch_results]
    ELSE Let(execute_one(st, Head(commands), lk), LAMBDA r :
            IF r.result.success
            THEN execute_until_failure(
                    [r.st EXCEPT !.history = Append(@, r.result)],
                    Tail(commands), lk, Append(batch_results, r.result))
            ELSE [st |-> [r.st EXCEPT !.history = Append(@, r.result),
                                      !.pending = <<>>],
                  results |-> Append(batch_results, r.result)])

\* the loop of CommandQueue.execute_all over the commands still to run, and
\* what it leaves: the state and the list it returns
RECURSIVE execute_from(_, _, _, _)
execute_from(st, commands, lk, batch_results) ==
    IF commands = <<>>
    THEN [st |-> [st EXCEPT !.pending = <<>>], results |-> batch_results]
    ELSE Let(execute_one(st, Head(commands), lk), LAMBDA r :
            execute_from([r.st EXCEPT !.history = Append(@, r.result)],
                         Tail(commands), lk, Append(batch_results, r.result)))

\* CommandQueue.execute_all: the state it leaves and the results it returns
execute_batch(st, lk) ==
    Let(st, LAMBDA s : execute_from(s, s.pending, lk, <<>>))

\* CommandQueue.execute_all, for a caller that drops the returned list
execute_all(st, lk) == execute_batch(st, lk).st

\* execute_immediate that leaves no record of the command
execute_immediate_unrecorded(st, command, lk) ==
    execute_one(st, command, lk).st

\* CommandQueue.execute_immediate
execute_immediate(st, command, lk) ==
    Let(execute_one(st, command, lk), LAMBDA r :
        [r.st EXCEPT !.history = Append(@, r.result)])

\* CommandQueue.clear
clear(st) == [st EXCEPT !.pending = <<>>]

\* CommandQueue.clear_history
clear_history(st) == [st EXCEPT !.history = <<>>]

\* history[-limit:], a Python slice with a negative start: the start index
\* -limit counts from the end when it is negative, and is the start of the
\* list when it is 0 or lies before the first entry
SliceFromEnd(list, limit) ==
    LET n == Len(list)
        start == IF -limit < 0 THEN Max(n - limit, 0) ELSE -limit
    IN  SubSeq(list, start + 1, n)

\* CommandQueue.get_history, the limit an Optional[int]
get_history(st, limit) ==
    IF limit = None THEN st.history
    ELSE SliceFromEnd(st.history, limit[1])

----------------------------------------------------------------------------
(* controller.py: each operation maps the state st to the state it leaves   *)
(* and the exception it raised, "none" when it returned                     *)

Done(st) == [st |-> st, raised |-> "none"]
Fail(st, kind) == [st |-> st, raised |-> kind]

\* BladeLoaderController.read_position_from_sensor
read_position_from_sensor(st, lk) ==
    Let(TransportSend(st, Word("M895"), lk), LAMBDA r :
        IF r.raised THEN Fail(r.st, "TransportError")
        ELSE IF r.response.x # None /\ r.response.y # None /\ r.response.z # None
        THEN Done([r.st EXCEPT !.position =
                Position(ParseFloat(r.response.x[1]), ParseFloat(r.response.y[1]),
                         ParseFloat(r.response.z[1]))])
        ELSE Done(r.st))

\* BladeLoaderController.sync_position
sync_position(st, lk) == read_position_from_sensor(st, lk)

\* motors_on that enables the motors without reading the sensor
motors_on_no_sync(st, lk) ==
    Let(execute_all(enqueue(st, MotorsCommand(TRUE)), lk), LAMBDA s1 :
        Done([s1 EXCEPT !.motors_enabled = TRUE]))

\* BladeLoaderController.motors_on
motors_on(st, lk) ==
    Let(execute_all(enqueue(st, MotorsCommand(TRUE)), lk), LAMBDA s1 :
        sync_position([s1 EXCEPT !.motors_enabled = TRUE], lk))

\* BladeLoaderController.motors_off
motors_off(st, lk) ==
    Let(execute_all(enqueue(st, MotorsCommand(FALSE)), lk), LAMBDA s1 :
        Done([s1 EXCEPT !.motors_enabled = FALSE]))

\* _require_homed without the homed check
require_homed_unchecked(st, lk) ==
    IF ~st.motors_enabled THEN motors_on(st, lk)
    ELSE Done(st)

\* BladeLoaderController._require_homed
require_homed(st, lk) ==
    IF ~st.is_homed THEN Fail(st, "RuntimeError")
    ELSE IF ~st.motors_enabled THEN motors_on(st, lk)
    ELSE Done(st)

\* home that leaves carrying_blade as it was
home_keeps_blade(st, lk) ==
    Let(execute_all(
            enqueue(enqueue(enqueue(st, SetModuleCommand("pneumatic")),
                            HomeCommand), WaitCommand), lk), LAMBDA s2 :
        Done([s2 EXCEPT !.position = REST_POSITION, !.is_homed = TRUE]))

\* BladeLoaderController.home
home(st, lk) ==
    Let(IF st.is_homed /\ st.position.z < st.safe_z
        THEN execute_all(
                enqueue(enqueue(st, MoveCommand(None, None, Some(st.safe_z))),
                        WaitCommand), lk)
        ELSE st, LAMBDA s1 :
    Let(execute_all(
            enqueue(enqueue(enqueue(s1, SetModuleCommand("pneumatic")),
                            HomeCommand), WaitCommand), lk), LAMBDA s2 :
        Done([s2 EXCEPT !.position = REST_POSITION,
                        !.is_homed = TRUE,
                        !.carrying_blade = FALSE])))

\* BladeLoaderController.move_to
move_to(st, target, lk) ==
    Let(require_homed(st, lk), LAMBDA g :
        IF g.raised # "none" THEN g
        ELSE Let(plan_direct_move(target), LAMBDA plan :
            IF plan.raised # "none" THEN Fail(g.st, plan.raised)
            ELSE Done([execute_all(enqueue_many(g.st, plan.commands), lk)
                        EXCEPT !.position = target])))

\* BladeLoaderController.safe_move_to
safe_move_to(st, target, lk) ==
    Let(require_homed(st, lk), LAMBDA g :
        IF g.raised # "none" THEN g
        ELSE Let(plan_safe_move(g.st.safe_z, g.st.position, target), LAMBDA plan :
            IF plan.raised # "none" THEN Fail(g.st, plan.raised)
            ELSE Done([execute_all(enqueue_many(g.st, plan.commands), lk)
                        EXCEPT !.position = target])))

\* pick_blade that leaves suction_active as it was
pick_blade_pump_untracked(st, pos, lk) ==
    Let(require_homed(st, lk), LAMBDA g :
        IF g.raised # "none" THEN g
        ELSE Let(plan_pick_sequence(g.st.safe_z, g.st.position, pos), LAMBDA plan :
            IF plan.raised # "none" THEN Fail(g.st, plan.raised)
            ELSE Done([execute_all(enqueue_many(g.st, plan.commands), lk)
                        EXCEPT !.position = with_z(pos, g.st.safe_z),
                               !.carrying_blade = TRUE])))

\* BladeLoaderController.pick_blade
pick_blade(st, pos, lk) ==
    Let(require_homed(st, lk), LAMBDA g :
        IF g.raised # "none" THEN g
        ELSE Let(plan_pick_sequence(g.st.safe_z, g.st.position, pos), LAMBDA plan :
            IF plan.raised # "none" THEN Fail(g.st, plan.raised)
            ELSE Done([execute_all(enqueue_many(g.st, plan.commands), lk)
                        EXCEPT !.position = with_z(pos, g.st.safe_z),
                               !.carrying_blade = TRUE,
                               !.suction_active = TRUE])))

\* BladeLoaderController.place_blade
place_blade(st, pos, lk) ==
    Let(require_homed(st, lk), LAMBDA g :
        IF g.raised # "none" THEN g
        ELSE IF ~g.st.carrying_blade THEN Fail(g.st, "RuntimeError")
        ELSE Let(plan_place_sequence(g.st.safe_z, g.st.position, pos), LAMBDA plan :
            IF plan.raised # "none" THEN Fail(g.st, plan.raised)
            ELSE Done([execute_all(enqueue_many(g.st, plan.commands), lk)
                        EXCEPT !.position = with_z(pos, g.st.safe_z),
                               !.carrying_blade = FALSE,
                               !.suction_active = FALSE])))

\* BladeLoaderController.suction_on
suction_on(st, lk) ==
    Done([execute_all(enqueue(st, SuctionCommand("on")), lk)
            EXCEPT !.suction_active = TRUE])

\* suction_off that also takes the blade for dropped
suction_off_drops_blade(st, lk) ==
    Done([execute_all(enqueue(enqueue(st, SuctionCommand("release")),
                              SuctionCommand("off")), lk)
            EXCEPT !.suction_active = FALSE, !.carrying_blade = FALSE])

\* BladeLoaderController.suction_off
suction_off(st, lk) ==
    Done([execute_all(enqueue(enqueue(st, SuctionCommand("release")),
                              SuctionCommand("off")), lk)
            EXCEPT !.suction_active = FALSE])

\* emergency_stop that forgets the homing
emergency_stop_unhomes(st, lk) ==
    Let(suction_off(execute_immediate(st, EmergencyStopCommand, lk), lk), LAMBDA r :
        [r EXCEPT !.st.is_homed = FALSE])

\* api/routes/movement.py emergency_stop, with a controller connected
emergency_stop(st, lk) ==
    suction_off(execute_immediate(st, EmergencyStopCommand, lk), lk)

----------------------------------------------------------------------------
(* The controller and its collaborators as a state machine *)

\* bound: controller operations per behaviour
MaxOps == 3

\* targets given to the movement operations: a pick point below safe Z, a
\* hook above safe Z with a coordinate finer than a hundredth, and the
\* unreachable point of the workspace scenario
PICK_POINT == Position(Mm(100), Mm(200), Mm(10))
HOOK_POINT == Position(Mm(-100) + 1, Mm(200), Mm(60))
FAR_POINT  == Position(Mm(300), Mm(350), Mm(50))
Targets == {PICK_POINT, HOOK_POINT, FAR_POINT}

\* where the arm is left by hand in teach mode
HandPositions == {Position(Mm(150), Mm(280), Mm(45)),
                  Position(Mm(80), Mm(260), Mm(20) + 1)}

Links == {"ok", "raise", "noack"}

\* the state the operations work on
Cur ==
    [position |-> position, is_homed |-> is_homed,
     carrying_blade |-> carrying_blade, suction_active |-> suction_active,
     motors_enabled |-> motors_enabled, safe_z |-> safe_z,
     pending |-> pending, history |-> history,
     sent_commands |-> sent_commands, sim_position |-> sim_position,
     sim_suction |-> sim_suction, faults |-> <<>>]

Snapshot ==
    [position |-> position, is_homed |-> is_homed,
     carrying_blade |-> carrying_blade, suction_active |-> suction_active,
     motors_enabled |-> motors_enabled,
     nsent |-> Len(sent_commands), nhistory |-> Len(history)]

NoOperation ==
    [op |-> "none", target |-> REST_POSITION, raised |-> "none",
     pre |-> [position |-> REST_POSITION, is_homed |-> FALSE,
              carrying_blade |-> FALSE, suction_active |-> FALSE,
              motors_enabled |-> TRUE, nsent |-> 0, nhistory |-> 0]]

\* BladeLoaderController.__init__, CommandQueue.__init__, MockTransport.__init__
InitController ==
    /\ position = REST_POSITION
    /\ is_homed = FALSE
    /\ carrying_blade = FALSE
    /\ suction_active = FALSE
    /\ motors_enabled = TRUE
    /\ safe_z = Mm(50)
    /\ pending = <<>>
    /\ history = <<>>
    /\ sent_commands = <<>>
    /\ sim_position = REST_POSITION
    /\ sim_suction = "off"
    /\ link = "ok"
    /\ last = NoOperation
    /\ nops = 0

\* one call of a controller operation, r its outcome
Operation(op, target, outcome) ==
    /\ nops < MaxOps
    /\ \E r \in {outcome} :
            /\ position' = r.st.position
            /\ is_homed' = r.st.is_homed
            /\ carrying_blade' = r.st.carrying_blade
            /\ suction_active' = r.st.suction_active
            /\ motors_enabled' = r.st.motors_enabled
            /\ safe_z' = r.st.safe_z
            /\ pending' = r.st.pending
            /\ history' = r.st.history
            /\ sent_commands' = r.st.sent_commands
            /\ sim_position' = r.st.sim_position
            /\ sim_suction' = r.st.sim_suction
            /\ last' = [op |-> op, target |-> target, raised |-> r.raised,
                        pre |-> Snapshot]
            /\ nops' = nops + 1
            /\ UNCHANGED <<link, plan_vars, call_vars, serial_vars, wf_vars, sm_vars, cycle_vars, queue_vars>>

Home == Operation("home", REST_POSITION, home(Cur, link))

MoveTo == \E t \in Targets : Operation("move_to", t, move_to(Cur, t, link))

SafeMoveTo ==
    \E t \in Targets : Operation("safe_move_to", t, safe_move_to(Cur, t, link))

PickBlade ==
    \E t \in Targets : Operation("pick_blade", t, pick_blade(Cur, t, link))

PlaceBlade ==
    \E t \in Targets : Operation("place_blade", t, place_blade(Cur, t, link))

SuctionOn == Operation("suction_on", REST_POSITION, suction_on(Cur, link))

SuctionOff == Operation("suction_off", REST_POSITION, suction_off(Cur, link))

MotorsOff == Operation("motors_off", REST_POSITION, motors_off(Cur, link))

MotorsOn == Operation("motors_on", REST_POSITION, motors_on(Cur, link))

SyncPosition ==
    Operation("sync_position", REST_POSITION, sync_position(Cur, link))

EmergencyStop ==
    Operation("emergency_stop", REST_POSITION, emergency_stop(Cur, link))

\* the arm is moved by hand while the motors are off (teach mode)
HandMove ==
    /\ ~motors_enabled
    /\ \E p \in HandPositions : sim_position' = p
    /\ UNCHANGED <<arm_vars, safe_z, exec_vars, sent_commands, sim_suction,
                   link, last, nops, plan_vars, call_vars, serial_vars, wf_vars, sm_vars, cycle_vars, queue_vars>>

\* the link to the arm changes its behaviour
SetLink ==
    /\ \E lk \in Links \ {link} : link' = lk
    /\ UNCHANGED <<arm_vars, safe_z, exec_vars, sim_vars, last, nops, plan_vars,
                   call_vars, serial_vars, wf_vars, sm_vars, cycle_vars, queue_vars>>

\* no CommandQueue method called yet
NoCall ==
    [op |-> "none", limit |-> None, faults |-> <<>>,
     pre |-> [pending |-> <<>>, history |-> <<>>, sent_commands |-> <<>>],
     returned |-> <<>>, n |-> 0]

\* the threads that call into the one SerialTransport
Threads == {"a", "b"}

\* no thread inside the transport, nothing returned yet
NoReturn == [lines |-> <<>>, raised |-> "none"]
NoSerialCall == [method |-> "none", data |-> "none", wait_ok |-> TRUE]

\* SerialTransport.__init__ and connect: the port open, the lock free
InitSerial ==
    /\ lock = "free"
    /\ pc = [t \in Threads |-> "idle"]
    /\ doing = [t \in Threads |-> NoSerialCall]
    /\ got = [t \in Threads |-> <<>>]
    /\ ret = [t \in Threads |-> NoReturn]
    /\ inbuf = <<>>
    /\ outbuf = <<>>
    /\ ncalls = 0

\* no PickPlaceWorkflow method called yet
NoWorkflowCall ==
    [op |-> "none", raised |-> "none", message |-> "none", entered |-> <<>>,
     pre |-> [state |-> "IDLE", configured |-> FALSE, nsent |-> 0], n |-> 0]

\* PickPlaceWorkflow.__init__, given a transport and a queue or neither
InitWorkflow(has_transport) ==
    /\ wf = [state |-> "IDLE", pick_position |-> None, place_position |-> None,
             current_position |-> REST_POSITION,
             has_transport |-> has_transport]
    /\ wf_last = NoWorkflowCall

\* the planner under test not used
InitNoPlan ==
    /\ plan_args = [safe_z |-> Mm(50), current |-> REST_POSITION,
                    target |-> REST_POSITION]
    /\ plan_ret = [method |-> "none", raised |-> "none", commands |-> <<>>]

\* ArmSettings: the defaults, and the XY interlock enabled with a safe Z
DefaultArmSettings == [safe_z |-> 0, require_safe_z_for_xy |-> FALSE]
InterlockArmSettings == [safe_z |-> Mm(50), require_safe_z_for_xy |-> TRUE]

\* StateMachine.__init__ over a StateContext with total_hooks hooks stored,
\* ArmController.__init__ with the given settings. Beside the fields of the
\* code: attempts counts the on_enter calls on the current State object,
\* reliable says that the hardware never fails, pc and returned are the
\* position and the return value of the thread in run_to_completion, and
\* acted_after_stop records an on_enter call begun after stop()
NewStateMachine(settings, pick, total_hooks) ==
    [current_state |-> "None", is_running |-> FALSE, history |-> <<>>,
     retry_count |-> 0,
     current_hook_index |-> 0, total_hooks |-> total_hooks,
     is_paused |-> FALSE, is_stopped |-> FALSE, error_message |-> None,
     current_pos |-> REST_POSITION, settings |-> settings,
     pick |-> pick, store_safe_z |-> Mm(50),
     issued |-> <<>>, result |-> "none", n |-> 0,
     attempts |-> 0, reliable |-> FALSE,
     pc |-> "idle", returned |-> "none", acted_after_stop |-> FALSE]

InitStateMachine ==
    sm = NewStateMachine(DefaultArmSettings, Some(PICK_POINT), 1)

\* the threads of the API requests: two requests to run the full cycle, and
\* one to stop it
RunRequests == {"run1", "run2"}
Requests == RunRequests \cup {"stop"}

\* AppState(): no cycle running
NewAppState == [is_running |-> FALSE, is_paused |-> FALSE]

\* a request that has not arrived yet: pc is its place in the handler, i the
\* loop index of run_full_cycle, stop_while_paused whether a stop request
\* came while the thread was waiting in its pause loop
NewRequest == [pc |-> "idle", i |-> 0, stop_while_paused |-> FALSE]

InitAppState ==
    /\ app = NewAppState
    /\ req = [t \in Requests |-> NewRequest]

\* the threads that call one controller: the cycle and a stop request
Callers == {"cycle", "stop"}

\* a thread outside any controller operation: op is the operation it is in or
\* was in last, it the index of the list iterator of execute_all, planned
\* the number of commands the operation enqueued
NewCaller == [op |-> "none", pc |-> "idle", it |-> 0, planned |-> 0]

InitCallers ==
    /\ thr = [t \in Callers |-> NewCaller]
    /\ tags = [pending |-> <<>>, sent |-> <<>>, running |-> "none", switches |-> 0]

InitAside ==
    /\ call = NoCall /\ InitSerial /\ InitWorkflow(TRUE) /\ InitStateMachine
    /\ InitAppState /\ InitCallers

InitIdle == InitAside /\ InitNoPlan

Init == InitController /\ InitIdle

ControllerOperation ==
    \/ Home
    \/ MoveTo
    \/ SafeMoveTo
    \/ PickBlade
    \/ PlaceBlade
    \/ SuctionOn
    \/ SuctionOff
    \/ MotorsOff
    \/ MotorsOn
    \/ SyncPosition
    \/ EmergencyStop

Next ==
    \/ ControllerOperation
    \/ HandMove
    \/ SetLink

\* any transport: the link may fail
Spec == Init /\ [][Next]_vars

NextSim ==
    \/ ControllerOperation
    \/ HandMove

\* the simulator transport: every command is acknowledged
SpecSim == Init /\ [][NextSim]_vars

----------------------------------------------------------------------------
(* The planner on its own: one planning method applied to one input *)

PlanSafeZs == {Mm(10), Mm(50), Mm(250)}

PlanCurrents ==
    {Position(xy[1], xy[2], z) :
        xy \in {<<0, Mm(300)>>, <<Mm(100), Mm(200)>>},
        z \in {Mm(0), Mm(10), Mm(50), Mm(60)}}
    \cup {Position(Mm(100) + 1, Mm(200), Mm(10) + 3)}

PlanTargets ==
    {Position(xy[1], xy[2], z) :
        xy \in {<<0, Mm(300)>>, <<Mm(100), Mm(200)>>, <<Mm(-100), Mm(200)>>,
                <<Mm(100) + 1, Mm(200)>>,
                <<Mm(300), Mm(350)>>, <<Mm(240), Mm(320)>>,
                <<Mm(240) + 1, Mm(320)>>, <<Mm(301), Mm(200)>>,
                <<Mm(-301), Mm(200)>>, <<0, Mm(99)>>, <<0, Mm(451)>>},
        z \in {Mm(-101), Mm(-100), Mm(10), Mm(50), Mm(60), Mm(200), Mm(201)}}

NoPlan == [method |-> "none", raised |-> "none", commands |-> <<>>]

Planned(method, result) ==
    [method |-> method, raised |-> result.raised, commands |-> result.commands]

InitPlan ==
    /\ plan_args \in [safe_z : PlanSafeZs, current : PlanCurrents,
                       target : PlanTargets]
    /\ plan_ret = NoPlan
    /\ InitController
    /\ InitAside

PlanDirectMove ==
    /\ plan_ret.method = "none"
    /\ plan_ret' = Planned("plan_direct_move", plan_direct_move(plan_args.target))
    /\ UNCHANGED <<plan_args, ctl_vars, call_vars, serial_vars, wf_vars, sm_vars, cycle_vars, queue_vars>>

PlanSafeMove ==
    /\ plan_ret.method = "none"
    /\ plan_ret' = Planned("plan_safe_move",
            plan_safe_move(plan_args.safe_z, plan_args.current, plan_args.target))
    /\ UNCHANGED <<plan_args, ctl_vars, call_vars, serial_vars, wf_vars, sm_vars, cycle_vars, queue_vars>>

PlanPickSequence ==
    /\ plan_ret.method = "none"
    /\ plan_ret' = Planned("plan_pick_sequence",
            plan_pick_sequence(plan_args.safe_z, plan_args.current, plan_args.target))
    /\ UNCHANGED <<plan_args, ctl_vars, call_vars, serial_vars, wf_vars, sm_vars, cycle_vars, queue_vars>>

PlanPlaceSequence ==
    /\ plan_ret.method = "none"
    /\ plan_ret' = Planned("plan_place_sequence",
            plan_place_sequence(plan_args.safe_z, plan_args.current, plan_args.target))
    /\ UNCHANGED <<plan_args, ctl_vars, call_vars, serial_vars, wf_vars, sm_vars, cycle_vars, queue_vars>>

NextPlan ==
    \/ PlanDirectMove
    \/ PlanSafeMove
    \/ PlanPickSequence
    \/ PlanPlaceSequence

SpecPlan == InitPlan /\ [][NextPlan]_vars

----------------------------------------------------------------------------
(* Properties of the planner *)

IsMove(cmd) == cmd.type = "Move"

\* a Z-only move to at least the height sz
IsLiftTo(cmd, sz) == IsMove(cmd) /\ is_z_only(cmd) /\ cmd.z[1] >= sz

IsXYMove(cmd) == IsMove(cmd) /\ changes_xy(cmd)

SafeMoveFromBelow ==
    /\ plan_ret.method = "plan_safe_move"
    /\ plan_ret.raised = "none"
    /\ plan_args.current.z < plan_args.safe_z
    /\ \/ plan_args.current.x # plan_args.target.x
       \/ plan_args.current.y # plan_args.target.y

\* C1 (INV-SAFE-LIFT): the plan of a safe move that starts below safe_z and
\* changes XY contains a Z-only move to at least safe_z, and the first such
\* move comes strictly before the first move that sets X or Y.
C1_SafeLift ==
    SafeMoveFromBelow =>
        LET cmds == plan_ret.commands
            lifts == {i \in 1..Len(cmds) : IsLiftTo(cmds[i], plan_args.safe_z)}
            xys == {i \in 1..Len(cmds) : IsXYMove(cmds[i])}
        IN  /\ lifts # {}
            /\ xys # {}
            /\ \E i \in lifts : \A j \in xys : i < j

C1_Witness ==
    /\ SafeMoveFromBelow
    /\ Len(plan_ret.commands) = 6

\* C4 (INV-WORKSPACE): plan_direct_move raises exactly when validate rejects
\* the target, and every planning method given a rejected target raises and
\* returns no command.
C4_Workspace ==
    LET rejected == validate(DEFAULT_WORKSPACE, plan_args.target) # "OK"
    IN  /\ plan_ret.method = "plan_direct_move" =>
                (plan_ret.raised = "ValueError" <=> rejected)
        /\ (plan_ret.method # "none" /\ rejected) =>
                (plan_ret.raised = "ValueError" /\ plan_ret.commands = <<>>)

C4_Witness ==
    /\ plan_ret.method = "plan_pick_sequence"
    /\ validate(DEFAULT_WORKSPACE, plan_args.target) = "Z"
    /\ validate(DEFAULT_WORKSPACE, with_z(plan_args.target, plan_args.safe_z)) = "OK"
    /\ plan_ret.raised = "ValueError"

\* C6 (INV-WAIT): in the output of every planning method every Move is
\* immediately followed by a Wait, so no two Moves come without a Wait between.
C6_WaitAfterMove ==
    LET cmds == plan_ret.commands
    IN  \A i \in 1..Len(cmds) :
            IsMove(cmds[i]) => (i < Len(cmds) /\ cmds[i + 1].type = "Wait")

C6_Witness ==
    /\ plan_ret.method = "plan_place_sequence"
    /\ Cardinality({i \in 1..Len(plan_ret.commands) :
                        IsMove(plan_ret.commands[i])}) = 4

----------------------------------------------------------------------------
(* Properties of the controller *)

MoveOps == {"move_to", "safe_move_to", "pick_blade", "place_blade"}

\* the last operation left the tracked ArmState as it found it
ArmUnchanged ==
    /\ position = last.pre.position
    /\ is_homed = last.pre.is_homed
    /\ carrying_blade = last.pre.carrying_blade
    /\ suction_active = last.pre.suction_active
    /\ motors_enabled = last.pre.motors_enabled

\* the last operation called Transport.send not once
NothingSent == Len(sent_commands) = last.pre.nsent

HistoryUnchanged == Len(history) = last.pre.nhistory

\* a command of the last operation is recorded as a failure
BatchFailed ==
    \E i \in (last.pre.nhistory + 1)..Len(history) : ~history[i].success

\* C2: a movement operation called while homed is false fails, sends nothing
\* and leaves ArmState and history unchanged; and no Move has reached the
\* transport as long as no home() has completed.
C2_NoMoveBeforeHome ==
    /\ (last.op \in MoveOps /\ ~last.pre.is_homed) =>
            /\ last.raised = "RuntimeError"
            /\ NothingSent
            /\ ArmUnchanged
            /\ HistoryUnchanged
    /\ ~is_homed => \A i \in 1..Len(sent_commands) : sent_commands[i].code # "G1"

C2_Witness ==
    /\ last.op \in MoveOps
    /\ ~last.pre.is_homed
    /\ last.raised = "RuntimeError"
    /\ last.pre.nsent > 0

\* C3: place_blade on a homed controller that carries no blade fails with a
\* precondition error, sends nothing and changes no field of ArmState,
\* whether the motors are enabled or not.
C3_PlaceWithoutPick ==
    (last.op = "place_blade" /\ last.pre.is_homed /\ ~last.pre.carrying_blade) =>
        /\ last.raised = "RuntimeError"
        /\ NothingSent
        /\ ArmUnchanged

\* C5: a movement operation on a homed controller with a target outside the
\* workspace aborts before any hardware I/O: nothing is sent and ArmState is
\* unchanged, in every controller state.
C5_InvalidTargetNoIO ==
    (/\ last.op \in MoveOps
     /\ last.pre.is_homed
     /\ validate(DEFAULT_WORKSPACE, last.target) # "OK") =>
        /\ last.raised # "none"
        /\ NothingSent
        /\ ArmUnchanged

CarryingChanged == carrying_blade # last.pre.carrying_blade

\* C7 as stated: carrying_blade becomes true only when pick_blade completes
\* and false only when place_blade completes.
C7_OnlyPickAndPlace ==
    CarryingChanged =>
        /\ last.raised = "none"
        /\ last.op = (IF carrying_blade THEN "pick_blade" ELSE "place_blade")

\* C7 amended: carrying_blade becomes true only when pick_blade completes, and
\* false only when place_blade or home completes; no other operation changes it.
C7_OnlyPickPlaceAndHome ==
    CarryingChanged =>
        /\ last.raised = "none"
        /\ IF carrying_blade THEN last.op = "pick_blade"
           ELSE last.op \in {"place_blade", "home"}

C7_Witness ==
    /\ last.op = "place_blade"
    /\ last.pre.carrying_blade
    /\ ~carrying_blade

\* C8: homed is false until a home() completes, and no operation resets it
\* to false once it is true.
C8_HomedIsKept ==
    /\ nops = 0 => ~is_homed
    /\ (is_homed /\ ~last.pre.is_homed) => last.op = "home"
    /\ last.pre.is_homed => is_homed

C8_Witness ==
    /\ last.op = "emergency_stop"
    /\ last.pre.is_homed
    /\ BatchFailed

\* C9: an operation of which a command is recorded as a failure leaves the
\* tracked ArmState as it was.
C9_StateOnlyAfterSuccess ==
    (last.op # "none" /\ BatchFailed) => ArmUnchanged

SameTo2Decimals(p, q) ==
    /\ Fmt2(p.x) = Fmt2(q.x)
    /\ Fmt2(p.y) = Fmt2(q.y)
    /\ Fmt2(p.z) = Fmt2(q.z)

\* C10 as stated: against the simulator the tracked position equals the
\* simulator's position whenever the motors are enabled.
C10_TrackedEqualsSimulated ==
    motors_enabled => position = sim_position

\* C10 amended: against the simulator the tracked position and the
\* simulator's position agree to the two decimals of the wire format
\* whenever the motors are enabled.
C10_TrackedMatchesSimulated ==
    motors_enabled => SameTo2Decimals(position, sim_position)

C10_Witness ==
    /\ last.op = "motors_on"
    /\ last.raised = "none"
    /\ ~last.pre.motors_enabled
    /\ motors_enabled
    /\ sim_position \in HandPositions
    /\ position # last.pre.position

----------------------------------------------------------------------------
(* The command queue on its own: its methods called in any order, over a   *)
(* transport that may fail each single send                                *)

\* bound: CommandQueue methods called per behaviour
MaxCalls == 3

\* commands given to enqueue, and batches given to enqueue_many
QueueCommands == {HomeCommand, MoveCommand(None, None, Some(Mm(50)))}
QueueBatches ==
    {<<MoveCommand(Some(Mm(100)), Some(Mm(200)), None), WaitCommand>>,
     <<SuctionCommand("on"), DelayCommand(VACUUM_DELAY_MS)>>}

\* how the transport treats the next sends of a call, one entry per send
FaultScripts ==
    {<<>>, <<"raise">>, <<"noack">>, <<"ok", "raise">>, <<"raise", "ok">>,
     <<"noack", "raise">>}

\* limits given to get_history
HistoryLimits == {None, Some(0), Some(1), Some(2), Some(5)}

\* one call of a CommandQueue method that leaves the state st and returns
\* the list returned
QueueCall(op, limit, faults, st, returned) ==
    /\ call.n < MaxCalls
    /\ pending' = st.pending
    /\ history' = st.history
    /\ sent_commands' = st.sent_commands
    /\ sim_position' = st.sim_position
    /\ sim_suction' = st.sim_suction
    /\ call' = [op |-> op, limit |-> limit, faults |-> faults,
                pre |-> [pending |-> pending, history |-> history,
                         sent_commands |-> sent_commands],
                returned |-> returned, n |-> call.n + 1]
    /\ UNCHANGED <<arm_vars, safe_z, link, last, nops, plan_vars, serial_vars,
                   wf_vars, sm_vars, cycle_vars, queue_vars>>

Enqueue ==
    \E c \in QueueCommands :
        QueueCall("enqueue", None, <<>>, enqueue(Cur, c), <<>>)

EnqueueMany ==
    \E cs \in QueueBatches :
        QueueCall("enqueue_many", None, <<>>, enqueue_many(Cur, cs), <<>>)

ExecuteAll ==
    \E f \in FaultScripts :
        \E r \in {execute_batch([Cur EXCEPT !.faults = f], "script")} :
            QueueCall("execute_all", None, f, r.st, r.results)

ExecuteImmediate ==
    \E f \in {<<>>, <<"raise">>, <<"noack">>} :
        \E s \in {execute_immediate([Cur EXCEPT !.faults = f],
                                    EmergencyStopCommand, "script")} :
            QueueCall("execute_immediate", None, f, s,
                      <<s.history[Len(s.history)]>>)

Clear == QueueCall("clear", None, <<>>, clear(Cur), <<>>)

ClearHistory == QueueCall("clear_history", None, <<>>, clear_history(Cur), <<>>)

GetHistory ==
    \E limit \in HistoryLimits :
        QueueCall("get_history", limit, <<>>, Cur, get_history(Cur, limit))

NextExec ==
    \/ Enqueue
    \/ EnqueueMany
    \/ ExecuteAll
    \/ ExecuteImmediate
    \/ Clear
    \/ ClearHistory
    \/ GetHistory

SpecExec == Init /\ [][NextExec]_vars

----------------------------------------------------------------------------
(* Properties of the command queue *)

\* how the transport treated the i-th send of the last call
FaultAt(i) == IF i <= Len(call.faults) THEN call.faults[i] ELSE "ok"

\* C11: execute_all sends every pending command once and in the order of the
\* queue, whether or not earlier ones failed; it appends one result per
\* command to the history in that order, empties the queue, and returns the
\* results of this batch only
C11_ExecuteAllRunsWholeBatch ==
    call.op = "execute_all" =>
        LET n == Len(call.pre.pending)
        IN  /\ pending = <<>>
            /\ sent_commands = call.pre.sent_commands
                    \o [i \in 1..n |-> to_gcode(call.pre.pending[i])]
            /\ history = call.pre.history \o call.returned
            /\ Len(call.returned) = n
            /\ \A i \in 1..n :
                    /\ call.returned[i].command = call.pre.pending[i]
                    /\ call.returned[i].gcode = to_gcode(call.pre.pending[i])
                    /\ call.returned[i].success <=> (FaultAt(i) = "ok")

\* a batch of two whose first command failed and whose second succeeded, run
\* when the history already held an earlier result
C11_Witness ==
    /\ call.op = "execute_all"
    /\ Len(call.pre.pending) = 2
    /\ call.pre.history # <<>>
    /\ Len(call.returned) = 2
    /\ ~call.returned[1].success
    /\ call.returned[2].success

IsPrefix(s, t) == Len(s) <= Len(t) /\ SubSeq(t, 1, Len(s)) = s

\* C13: after every CommandQueue method, clear_history included, the history
\* before the call is a prefix of the history after it
C13_HistoryAppendOnly ==
    call.op # "none" => IsPrefix(call.pre.history, history)

\* C14: get_history(limit = n) returns the n most recent entries in order,
\* all of them when fewer than n exist, and never more than n; without a
\* limit it returns the whole history
C14_HistoryLimit ==
    call.op = "get_history" =>
        IF call.limit = None THEN call.returned = history
        ELSE LET n == call.limit[1]
                 len == Len(history)
             IN  /\ Len(call.returned) <= n
                 /\ call.returned = SubSeq(history, Max(len - n, 0) + 1, len)

----------------------------------------------------------------------------
(* Properties of the audit trail and of the emergency stop *)

\* C12: every wire command the transport received from the controller has
\* its CommandResult in the history, with the same wire text and at the same
\* place in the order
C12_EverySendInHistory ==
    /\ Len(history) = Len(sent_commands)
    /\ \A i \in 1..Len(sent_commands) : history[i].gcode = sent_commands[i]

\* C16: the emergency-stop path returns without raising whatever the link
\* does, and the first result it adds to the history is that of M410, with
\* success false when the link failed and true when it acknowledged
C16_EmergencyStopNeverRaises ==
    [][last'.op = "emergency_stop" /\ nops' = nops + 1 =>
        /\ last'.raised = "none"
        /\ Len(history') > Len(history)
        /\ history'[Len(history) + 1].gcode = to_gcode(EmergencyStopCommand)
        /\ history'[Len(history) + 1].success <=> (link = "ok")]_vars

\* an emergency stop over a failing link: its M410 is in the history as failed
C16_Witness ==
    /\ last.op = "emergency_stop"
    /\ last.raised = "none"
    /\ history[last.pre.nhistory + 1].gcode = to_gcode(EmergencyStopCommand)
    /\ ~history[last.pre.nhistory + 1].success

----------------------------------------------------------------------------
(* core/serial_transport.py: threads calling into one SerialTransport. A   *)
(* call is a sequence of steps on the serial port; steps of different      *)
(* threads interleave wherever the code lets them.                         *)

\* bound: SerialTransport calls started per behaviour
MaxSerialCalls == 3

\* wire texts given to send and write_raw; M410 is the emergency stop
SerialData == {"G1", "M114"}
QUICKSTOP == "M410"

\* a line from the arm, answering the command data written by thread by
Line(text, data, by) == [text |-> text, data |-> data, by |-> by]

\* the lines the arm answers a command with: a position report before the ok
\* for M114, the ok alone otherwise
DeviceLines(command) ==
    IF command.data = "M114"
    THEN <<Line("X: Y: Z:", command.data, command.by),
           Line("ok", command.data, command.by)>>
    ELSE <<Line("ok", command.data, command.by)>>

\* 'ok' in line.lower()
HasOk(line) == line.text = "ok"

OtherSerial == <<plan_vars, ctl_vars, call_vars, wf_vars, sm_vars, cycle_vars, queue_vars>>

\* a thread enters a call
Enter(t, method, data, wait_ok) ==
    /\ pc[t] = "idle"
    /\ ncalls < MaxSerialCalls
    /\ ncalls' = ncalls + 1
    /\ doing' = [doing EXCEPT ![t] =
                    [method |-> method, data |-> data, wait_ok |-> wait_ok]]
    /\ got' = [got EXCEPT ![t] = <<>>]

\* a thread leaves its call
Leave(t, lines, raised) ==
    /\ pc' = [pc EXCEPT ![t] = "idle"]
    /\ ret' = [ret EXCEPT ![t] = [lines |-> lines, raised |-> raised]]

\* send(data, wait_ok): connected, the thread goes for the lock
CallSend(t) ==
    \E data \in SerialData, wait_ok \in BOOLEAN :
        /\ Enter(t, "send", data, wait_ok)
        /\ pc' = [pc EXCEPT ![t] = "acquire"]
        /\ UNCHANGED <<lock, ret, inbuf, outbuf, OtherSerial>>

\* POST /api/estop: execute_immediate(EmergencyStopCommand) calls
\* transport.send("M410")
CallEmergencyStop(t) ==
    /\ Enter(t, "send", QUICKSTOP, TRUE)
    /\ pc' = [pc EXCEPT ![t] = "acquire"]
    /\ UNCHANGED <<lock, ret, inbuf, outbuf, OtherSerial>>

\* with self._lock: blocks while another thread holds the lock
Acquire(t) ==
    /\ pc[t] = "acquire"
    /\ lock = "free"
    /\ lock' = t
    /\ pc' = [pc EXCEPT ![t] = "write"]
    /\ UNCHANGED <<doing, got, ret, inbuf, outbuf, ncalls, OtherSerial>>

\* self._serial.write(data) inside send
Write(t) ==
    /\ pc[t] = "write"
    /\ outbuf' = Append(outbuf, [data |-> doing[t].data, by |-> t])
    /\ pc' = [pc EXCEPT ![t] = IF doing[t].wait_ok THEN "wait" ELSE "discard"]
    /\ UNCHANGED <<lock, doing, got, ret, inbuf, ncalls, OtherSerial>>

\* send with wait_ok = False: reset_input_buffer, return None
Discard(t) ==
    /\ pc[t] = "discard"
    /\ inbuf' = <<>>
    /\ lock' = "free"
    /\ Leave(t, <<>>, "none")
    /\ UNCHANGED <<doing, got, outbuf, ncalls, OtherSerial>>

\* _wait_for_ok: readline gives a line; the call returns with the ok
WaitRead(t) ==
    /\ pc[t] = "wait"
    /\ inbuf # <<>>
    /\ inbuf' = Tail(inbuf)
    /\ IF HasOk(Head(inbuf))
       THEN /\ Leave(t, Append(got[t], Head(inbuf)), "none")
            /\ lock' = "free"
            /\ got' = got
       ELSE /\ got' = [got EXCEPT ![t] = Append(@, Head(inbuf))]
            /\ UNCHANGED <<lock, pc, ret>>
    /\ UNCHANGED <<doing, outbuf, ncalls, OtherSerial>>

\* _wait_for_ok: no ok within the timeout; reset_input_buffer, TimeoutError
WaitTimeout(t) ==
    /\ pc[t] = "wait"
    /\ inbuf' = <<>>
    /\ lock' = "free"
    /\ Leave(t, got[t], "TimeoutError")
    /\ UNCHANGED <<doing, got, outbuf, ncalls, OtherSerial>>

\* send_emergency(data): the write, without the lock
CallSendEmergency(t) ==
    /\ Enter(t, "send_emergency", QUICKSTOP, FALSE)
    /\ outbuf' = Append(outbuf, [data |-> QUICKSTOP, by |-> t])
    /\ pc' = [pc EXCEPT ![t] = "emergency_reset"]
    /\ UNCHANGED <<lock, ret, inbuf, OtherSerial>>

\* send_emergency: reset_input_buffer, return
EmergencyReset(t) ==
    /\ pc[t] = "emergency_reset"
    /\ inbuf' = <<>>
    /\ Leave(t, <<>>, "none")
    /\ UNCHANGED <<lock, doing, got, outbuf, ncalls, OtherSerial>>

\* read_line(): the next line, or nothing when none comes in time
ReadLine(t) ==
    /\ Enter(t, "read_line", "none", FALSE)
    /\ inbuf' = IF inbuf = <<>> THEN inbuf ELSE Tail(inbuf)
    /\ ret' = [ret EXCEPT ![t] =
                 [lines |-> IF inbuf = <<>> THEN <<>> ELSE <<Head(inbuf)>>,
                  raised |-> "none"]]
    /\ UNCHANGED <<lock, pc, outbuf, OtherSerial>>

\* read_until_ok(): the thread starts reading
CallReadUntilOk(t) ==
    /\ Enter(t, "read_until_ok", "none", TRUE)
    /\ pc' = [pc EXCEPT ![t] = "until_ok"]
    /\ UNCHANGED <<lock, ret, inbuf, outbuf, OtherSerial>>

\* read_until_ok: read_line gives a line; the call returns with the ok
ReadUntilOk(t) ==
    /\ pc[t] = "until_ok"
    /\ inbuf # <<>>
    /\ inbuf' = Tail(inbuf)
    /\ IF HasOk(Head(inbuf))
       THEN /\ Leave(t, Append(got[t], Head(inbuf)), "none")
            /\ got' = got
       ELSE /\ got' = [got EXCEPT ![t] = Append(@, Head(inbuf))]
            /\ UNCHANGED <<pc, ret>>
    /\ UNCHANGED <<lock, doing, outbuf, ncalls, OtherSerial>>

\* clear_buffer()
ClearBuffer(t) ==
    /\ Enter(t, "clear_buffer", "none", FALSE)
    /\ inbuf' = <<>>
    /\ UNCHANGED <<lock, pc, ret, outbuf, OtherSerial>>

\* write_raw(data)
WriteRaw(t) ==
    /\ \E data \in SerialData : 
            /\ Enter(t, "write_raw", data, FALSE)
            /\ outbuf' = Append(outbuf, [data |-> data, by |-> t])
    /\ UNCHANGED <<lock, pc, ret, inbuf, OtherSerial>>

\* the arm answers the oldest command it has not answered yet
DeviceAnswer ==
    /\ outbuf # <<>>
    /\ inbuf' = inbuf \o DeviceLines(Head(outbuf))
    /\ outbuf' = Tail(outbuf)
    /\ UNCHANGED <<lock, pc, doing, got, ret, ncalls, OtherSerial>>

\* a step of thread t that reads from or writes to the serial port
TouchesPort(t) ==
    \/ Write(t)
    \/ Discard(t)
    \/ WaitRead(t)
    \/ WaitTimeout(t)
    \/ CallSendEmergency(t)
    \/ EmergencyReset(t)
    \/ ReadLine(t)
    \/ ReadUntilOk(t)
    \/ ClearBuffer(t)
    \/ WriteRaw(t)

ThreadStep(t) ==
    \/ CallSend(t)
    \/ CallEmergencyStop(t)
    \/ Acquire(t)
    \/ CallReadUntilOk(t)
    \/ TouchesPort(t)

NextSerial ==
    \/ \E t \in Threads : ThreadStep(t)
    \/ DeviceAnswer

SpecSerial == Init /\ [][NextSerial]_vars

----------------------------------------------------------------------------
(* Properties of the serial transport *)

\* thread t has written its command inside send and waits for the ok
InFlight(t) == pc[t] = "wait" /\ lock = t

\* C15: an emergency stop requested while another thread's command is in
\* flight is not held back by it: the thread that is to write M410 never
\* stands before a lock that an in-flight sender holds
C15_EmergencyStopPreempts ==
    \A t \in Threads :
        doing[t].data = QUICKSTOP /\ pc[t] = "acquire" =>
            \A u \in Threads \ {t} : ~InFlight(u)

\* C17: while a send is in flight, from its write to its ok or its timeout,
\* no step of another thread reads from or writes to the serial port
C17_NothingElseTouchesPort ==
    [][\A t \in Threads : InFlight(t) =>
            \A u \in Threads \ {t} : ~TouchesPort(u)]_vars

----------------------------------------------------------------------------
(* workflows/pick_place.py: each method maps the state st (the workflow,   *)
(* its queue and its transport) to the state it leaves                     *)

WfDone(st) == [st |-> st, raised |-> "none", message |-> "none"]
WfFail(st, kind, message) == [st |-> st, raised |-> kind, message |-> message]

\* PickPlaceWorkflow._set_state; entered is what on_state_change is told
set_state(st, new_state) ==
    [st EXCEPT !.wf_state = new_state, !.entered = Append(@, new_state)]

\* PickPlaceWorkflow.configure, current_position an Optional[Position]
configure(st, pick_position, place_position, current_position) ==
    [st EXCEPT !.pick_position = Some(pick_position),
               !.place_position = Some(place_position),
               !.current_position =
                    IF current_position # None THEN current_position[1] ELSE @]

\* start that does not look at the current state
start_unchecked(st) ==
    IF st.pick_position = None \/ st.place_position = None
    THEN WfFail(st, "ValueError", "positions not configured")
    ELSE WfDone(set_state(st, "MOVING_TO_PICK"))

\* PickPlaceWorkflow.start
start(st) ==
    IF st.wf_state # "IDLE"
    THEN WfFail(st, "ValueError", "workflow is not idle")
    ELSE IF st.pick_position = None \/ st.place_position = None
    THEN WfFail(st, "ValueError", "positions not configured")
    ELSE WfDone(set_state(st, "MOVING_TO_PICK"))

\* PickPlaceWorkflow.reset
reset(st) == set_state(st, "IDLE")

\* enqueue each of the commands, then execute_all
run_commands(st, commands, lk) == execute_all(enqueue_many(st, commands), lk)

\* _execute_move_to_pick and _execute_move_to_place
execute_move_above(st, configured, lk) ==
    IF configured = None
    THEN WfFail(st, "AssertionError", "position is None")
    ELSE Let(with_z(configured[1], st.safe_z), LAMBDA above :
         Let(plan_safe_move(st.safe_z, st.current_position, above), LAMBDA plan :
            IF plan.raised # "none"
            THEN WfFail(st, plan.raised, "position outside workspace")
            ELSE WfDone([run_commands(st, plan.commands, lk)
                            EXCEPT !.current_position = above])))

\* _execute_lower_to_pick and _execute_lower_to_place
execute_lower_to(st, configured, lk) ==
    IF configured = None
    THEN WfFail(st, "AssertionError", "position is None")
    ELSE WfDone([run_commands(st,
                    <<MoveCommand(None, None, Some(configured[1].z)),
                      WaitCommand>>, lk)
                    EXCEPT !.current_position = configured[1]])

\* _execute_lift_from_pick and _execute_lift_from_place
execute_lift(st, lk) ==
    WfDone([run_commands(st,
                <<MoveCommand(None, None, Some(st.safe_z)), WaitCommand>>, lk)
                EXCEPT !.current_position = with_z(@, st.safe_z)])

\* PickPlaceWorkflow._execute_current_state, with _execute_activate_suction
\* and _execute_release
execute_current_state(st, lk) ==
    IF ~st.has_transport THEN WfDone(st)
    ELSE CASE st.wf_state = "MOVING_TO_PICK" ->
                execute_move_above(st, st.pick_position, lk)
           [] st.wf_state = "LOWERING_TO_PICK" ->
                execute_lower_to(st, st.pick_position, lk)
           [] st.wf_state = "ACTIVATING_SUCTION" ->
                WfDone(run_commands(st,
                    <<SuctionCommand("on"), DelayCommand(VACUUM_DELAY_MS)>>, lk))
           [] st.wf_state = "LIFTING_FROM_PICK" -> execute_lift(st, lk)
           [] st.wf_state = "MOVING_TO_PLACE" ->
                execute_move_above(st, st.place_position, lk)
           [] st.wf_state = "LOWERING_TO_PLACE" ->
                execute_lower_to(st, st.place_position, lk)
           [] st.wf_state = "RELEASING" ->
                WfDone(run_commands(st,
                    <<SuctionCommand("release"), DelayCommand(RELEASE_DELAY_MS),
                      SuctionCommand("off")>>, lk))
           [] st.wf_state = "LIFTING_FROM_PLACE" -> execute_lift(st, lk)
           [] OTHER -> WfDone(st)

\* the transition table of _advance_state
transitions(state) ==
    CASE state = "MOVING_TO_PICK" -> "LOWERING_TO_PICK"
      [] state = "LOWERING_TO_PICK" -> "ACTIVATING_SUCTION"
      [] state = "ACTIVATING_SUCTION" -> "LIFTING_FROM_PICK"
      [] state = "LIFTING_FROM_PICK" -> "MOVING_TO_PLACE"
      [] state = "MOVING_TO_PLACE" -> "LOWERING_TO_PLACE"
      [] state = "LOWERING_TO_PLACE" -> "RELEASING"
      [] state = "RELEASING" -> "LIFTING_FROM_PLACE"
      [] state = "LIFTING_FROM_PLACE" -> "COMPLETE"
      [] OTHER -> state

\* _advance_state that goes from the pick straight to the place
advance_state_without_lift(st) ==
    IF st.wf_state = "ACTIVATING_SUCTION" THEN set_state(st, "MOVING_TO_PLACE")
    ELSE IF transitions(st.wf_state) # st.wf_state
    THEN set_state(st, transitions(st.wf_state))
    ELSE st

\* PickPlaceWorkflow._advance_state
advance_state(st) ==
    IF transitions(st.wf_state) # st.wf_state
    THEN set_state(st, transitions(st.wf_state))
    ELSE st

\* PickPlaceWorkflow._handle_error
handle_error(st, message) == set_state(st, "ERROR")

\* PickPlaceWorkflow.step
step(st, lk) ==
    IF st.wf_state \in {"IDLE", "COMPLETE", "ERROR"} THEN st
    ELSE Let(execute_current_state(st, lk), LAMBDA r :
            IF r.raised # "none" THEN handle_error(r.st, r.message)
            ELSE advance_state(r.st))

\* the loop of run: step until Complete or Error
RECURSIVE run_steps(_, _)
run_steps(st, lk) ==
    IF st.wf_state \in {"COMPLETE", "ERROR"} THEN st
    ELSE Let(step(st, lk), LAMBDA s : run_steps(s, lk))

\* PickPlaceWorkflow.run
run(st, lk) ==
    Let(start(st), LAMBDA r :
        IF r.raised # "none" THEN r
        ELSE WfDone(run_steps(r.st, lk)))

----------------------------------------------------------------------------
(* The workflow as a state machine: its methods called in any order, over  *)
(* a link that may fail                                                    *)

\* bound: PickPlaceWorkflow methods called per behaviour
MaxWorkflowCalls == 4

\* positions given to configure: inside the workspace, the unreachable
\* point, and a pick a millimetre below the floor of the workspace
WorkflowPicks == {PICK_POINT, FAR_POINT, Position(Mm(100), Mm(200), Mm(-101))}
WorkflowPlaces == {Position(Mm(-100), Mm(200), Mm(10)), FAR_POINT}

\* the state the workflow methods work on
WfCur ==
    [wf_state |-> wf.state, pick_position |-> wf.pick_position,
     place_position |-> wf.place_position,
     current_position |-> wf.current_position,
     has_transport |-> wf.has_transport, entered |-> <<>>,
     safe_z |-> safe_z, pending |-> pending, history |-> history,
     sent_commands |-> sent_commands, sim_position |-> sim_position,
     sim_suction |-> sim_suction, faults |-> <<>>]

\* one call of a workflow method, r its outcome
WorkflowCall(op, outcome) ==
    /\ wf_last.n < MaxWorkflowCalls
    /\ \E r \in {outcome} :
            /\ wf' = [state |-> r.st.wf_state,
                      pick_position |-> r.st.pick_position,
                      place_position |-> r.st.place_position,
                      current_position |-> r.st.current_position,
                      has_transport |-> r.st.has_transport]
            /\ pending' = r.st.pending
            /\ history' = r.st.history
            /\ sent_commands' = r.st.sent_commands
            /\ sim_position' = r.st.sim_position
            /\ sim_suction' = r.st.sim_suction
            /\ wf_last' = [op |-> op, raised |-> r.raised,
                           message |-> r.message, entered |-> r.st.entered,
                           pre |-> [state |-> wf.state,
                                    configured |-> wf.pick_position # None
                                                /\ wf.place_position # None,
                                    nsent |-> Len(sent_commands)],
                           n |-> wf_last.n + 1]
            /\ UNCHANGED <<arm_vars, safe_z, link, last, nops, plan_vars,
                           call_vars, serial_vars, sm_vars, cycle_vars, queue_vars>>

Configure ==
    \E pick \in WorkflowPicks, place \in WorkflowPlaces,
       current \in {None, Some(Position(Mm(100), Mm(200), Mm(60)))} :
        WorkflowCall("configure", WfDone(configure(WfCur, pick, place, current)))

Start == WorkflowCall("start", start(WfCur))

Step == WorkflowCall("step", WfDone(step(WfCur, link)))

Run == WorkflowCall("run", run(WfCur, link))

Reset == WorkflowCall("reset", WfDone(reset(WfCur)))

\* a workflow with a transport and a queue, or one built without them
InitWf ==
    /\ InitController
    /\ InitNoPlan
    /\ call = NoCall
    /\ InitSerial
    /\ \E has_transport \in BOOLEAN : InitWorkflow(has_transport)
    /\ InitStateMachine
    /\ InitAppState /\ InitCallers

NextWf ==
    \/ Configure
    \/ Start
    \/ Step
    \/ Run
    \/ Reset
    \/ SetLink

SpecWf == InitWf /\ [][NextWf]_vars

----------------------------------------------------------------------------
(* Properties of the workflow *)

\* the states of one cycle, in the order of the transition table
CYCLE_STATES ==
    <<"MOVING_TO_PICK", "LOWERING_TO_PICK", "ACTIVATING_SUCTION",
      "LIFTING_FROM_PICK", "MOVING_TO_PLACE", "LOWERING_TO_PLACE", "RELEASING",
      "LIFTING_FROM_PLACE", "COMPLETE">>

\* run() was called last, on an Idle workflow with both positions configured
RanFromConfiguredIdle ==
    /\ wf_last.op = "run"
    /\ wf_last.pre.state = "IDLE"
    /\ wf_last.pre.configured

\* the configured position, taken at the safe height, is inside the workspace
ReachableAbove(configured) ==
    validate(DEFAULT_WORKSPACE, with_z(configured[1], safe_z)) = "OK"

StartRefused ==
    /\ wf_last.raised # "none"
    /\ wf.state = wf_last.pre.state
    /\ wf_last.entered = <<>>
    /\ Len(sent_commands) = wf_last.pre.nsent

\* the kind of error start() raises on a workflow that is not Idle
NotIdleErrorKind == start([WfCur EXCEPT !.wf_state = "MOVING_TO_PICK"]).raised

\* C19: start() fails when the state is not Idle and fails, with an error of
\* another kind, when a position is not configured; a failed start changes
\* no state and sends nothing; start() from a configured Idle workflow, and
\* no other, moves to MovingToPick
C19_StartErrorKinds ==
    wf_last.op = "start" =>
        /\ wf_last.pre.state # "IDLE" =>
                StartRefused /\ wf_last.raised = NotIdleErrorKind
        /\ wf_last.pre.state = "IDLE" /\ ~wf_last.pre.configured =>
                StartRefused /\ wf_last.raised # NotIdleErrorKind
        /\ wf_last.pre.state = "IDLE" /\ wf_last.pre.configured =>
                wf_last.raised = "none" /\ wf.state = "MOVING_TO_PICK"

\* C20: step() in Idle, Complete or Error changes no state and sends nothing;
\* step, start, run and configure leave an Error state as it is, only
\* reset() leaves it; reset() ends in Idle whatever the state was
C20_ErrorUntilReset ==
    /\ wf_last.op = "step" /\ wf_last.pre.state \in {"IDLE", "COMPLETE", "ERROR"}
        => /\ wf.state = wf_last.pre.state
           /\ wf_last.entered = <<>>
           /\ Len(sent_commands) = wf_last.pre.nsent
    /\ wf_last.pre.state = "ERROR" /\ wf.state # "ERROR" => wf_last.op = "reset"
    /\ wf_last.op = "reset" => wf.state = "IDLE"

\* reset() called on a workflow in Error
C20_Witness ==
    /\ wf_last.op = "reset"
    /\ wf_last.pre.state = "ERROR"
    /\ wf.state = "IDLE"

----------------------------------------------------------------------------
(* Transport failures inside a workflow step *)

\* C21: a step() during which a command failed on the transport (the send
\* raised, or no acknowledgment came back) leaves the workflow in Error: it
\* neither advances to the next state nor reaches Complete
C21_TransportFailureEntersError ==
    [][/\ wf_last'.n = wf_last.n + 1
       /\ wf_last'.op = "step"
       /\ \E i \in (Len(history) + 1)..Len(history') : ~history'[i].success
       => wf'.state = "ERROR"]_vars

----------------------------------------------------------------------------
(* Movement after teach mode *)

\* what the position sensor of the simulated arm answers, as the controller
\* reads it
SensorReading ==
    Let(PositionResponse(sim_position), LAMBDA r :
        Position(ParseFloat(r.x[1]), ParseFloat(r.y[1]), ParseFloat(r.z[1])))

\* the plan a movement operation asks of its planner
PlanOf(op, sz, current, target) ==
    CASE op = "move_to" -> plan_direct_move(target)
      [] op = "safe_move_to" -> plan_safe_move(sz, current, target)
      [] op = "pick_blade" -> plan_pick_sequence(sz, current, target)
      [] op = "place_blade" -> plan_place_sequence(sz, current, target)

Gcodes(commands) == [i \in 1..Len(commands) |-> to_gcode(commands[i])]

C23_NoMoveBeforeSensorRead ==
    \A i, j \in 1..Len(sent_commands) :
        /\ i < j
        /\ sent_commands[i] = to_gcode(MotorsCommand(FALSE))
        /\ sent_commands[j].code = "G1"
        => \E k \in (i + 1)..(j - 1) : sent_commands[k] = Word("M895")

----------------------------------------------------------------------------
(* Plans executed from the current position *)

\* where a Move leaves an arm that was at pos: the axes it names change
MoveEnd(pos, cmd) ==
    Position(IF cmd.x = None THEN pos.x ELSE cmd.x[1],
             IF cmd.y = None THEN pos.y ELSE cmd.y[1],
             IF cmd.z = None THEN pos.z ELSE cmd.z[1])

\* where the arm is after the commands, executed in order from pos
RECURSIVE ArmAfter(_, _)
ArmAfter(pos, commands) ==
    IF commands = <<>> THEN pos
    ELSE ArmAfter(IF IsMove(Head(commands)) THEN MoveEnd(pos, Head(commands))
                  ELSE pos, Tail(commands))

IsZMoveTo(cmd, z) == IsMove(cmd) /\ is_z_only(cmd) /\ cmd.z = Some(z)

\* C24: the plan returned by plan_pick_sequence is, in order, moves that
\* bring the arm from the current position to above the pick at safe_z, then
\* Suction On, then the Z-only move down to pick.z, then the vacuum Delay,
\* then the Z-only lift to safe_z; Suction On is the only suction command, so
\* it precedes the lowering move and none follows it
C24_PickSequenceOrder ==
    plan_ret.method = "plan_pick_sequence" /\ plan_ret.raised = "none" =>
        LET cmds == plan_ret.commands
            n == Len(cmds)
            sz == plan_args.safe_z
        IN  /\ n >= 7
            /\ \A i \in 1..(n - 6) : cmds[i].type \in {"Move", "Wait"}
            /\ ArmAfter(plan_args.current, SubSeq(cmds, 1, n - 6))
                    = with_z(plan_args.target, sz)
            /\ cmds[n - 5] = SuctionCommand("on")
            /\ IsZMoveTo(cmds[n - 4], plan_args.target.z)
            /\ cmds[n - 3] = WaitCommand
            /\ cmds[n - 2] = DelayCommand(VACUUM_DELAY_MS)
            /\ IsZMoveTo(cmds[n - 1], sz)
            /\ cmds[n] = WaitCommand

\* a pick planned from below safe_z at another XY: lift, XY move, then the
\* pick itself
C24_Witness ==
    /\ plan_ret.method = "plan_pick_sequence"
    /\ plan_ret.raised = "none"
    /\ plan_args.current.z < plan_args.safe_z
    /\ plan_args.target.z < plan_args.safe_z
    /\ Len(plan_ret.commands) = 10

----------------------------------------------------------------------------
(* More properties of the controller *)

\* C25: pick_blade called while a blade is carried fails with a precondition
\* error, sends nothing and leaves ArmState as it was
C25_PickWhileCarryingRejected ==
    last.op = "pick_blade" /\ last.pre.carrying_blade =>
        /\ last.raised = "RuntimeError"
        /\ NothingSent
        /\ ArmUnchanged

\* the five fields of ArmState in the state st
ArmStateOf(st) ==
    [position |-> st.position, is_homed |-> st.is_homed,
     carrying_blade |-> st.carrying_blade,
     suction_active |-> st.suction_active,
     motors_enabled |-> st.motors_enabled]

\* C26: home() called in any state returns with the position at the rest
\* pose, homed true and carrying_blade false; and in every state a second
\* home() right after a first leaves ArmState as the first left it
C26_HomeIdempotent ==
    /\ last.op = "home" =>
            /\ last.raised = "none"
            /\ position = REST_POSITION
            /\ is_homed
            /\ ~carrying_blade
    /\ Let(home(Cur, link), LAMBDA once :
       Let(home(once.st, link), LAMBDA twice :
            /\ once.raised = "none"
            /\ twice.raised = "none"
            /\ ArmStateOf(twice.st) = ArmStateOf(once.st)))

\* home() called on an arm already homed at the rest pose, below safe_z: it
\* lifts first, then homes again
C26_Witness ==
    /\ last.op = "home"
    /\ last.pre.is_homed
    /\ last.pre.position = REST_POSITION
    /\ Len(sent_commands) = last.pre.nsent + 5
    /\ position = REST_POSITION

\* C27: when a plan of plan_safe_move, plan_pick_sequence or
\* plan_place_sequence is executed from the current position it was planned
\* for, the arm is at or above safe_z before and after every Move that sets
\* X or Y
C27_XYMovesAtSafeZ ==
    plan_ret.method \in {"plan_safe_move", "plan_pick_sequence",
                         "plan_place_sequence"} =>
        LET cmds == plan_ret.commands
        IN  \A i \in 1..Len(cmds) :
                IsXYMove(cmds[i]) =>
                    /\ ArmAfter(plan_args.current, SubSeq(cmds, 1, i - 1)).z
                            >= plan_args.safe_z
                    /\ ArmAfter(plan_args.current, SubSeq(cmds, 1, i)).z
                            >= plan_args.safe_z

\* a place planned from below safe_z to another XY
C27_Witness ==
    /\ plan_ret.method = "plan_place_sequence"
    /\ plan_ret.raised = "none"
    /\ plan_args.current.z < plan_args.safe_z
    /\ \E i \in 1..Len(plan_ret.commands) : IsXYMove(plan_ret.commands[i])

\* where the simulated arm is after the wire commands, received in order
\* with the arm at pos
RECURSIVE SimAfter(_, _)
SimAfter(pos, wires) ==
    IF wires = <<>> THEN pos
    ELSE SimAfter(CASE Head(wires).code = "G1" -> simulate_move(pos, Head(wires))
                    [] Head(wires).code = "M1112" -> REST_POSITION
                    [] OTHER -> pos,
                  Tail(wires))

\* C28 (INV-M2): an operation called while a blade is carried sends no Move
\* that changes the arm's X or Y with the arm below safe_z before it or
\* after it
C28_NoLowXYWhenCarrying ==
    [][nops' = nops + 1 /\ carrying_blade =>
        LET wires == SubSeq(sent_commands', Len(sent_commands) + 1,
                            Len(sent_commands'))
        IN  \A i \in 1..Len(wires) :
                LET before == SimAfter(sim_position, SubSeq(wires, 1, i - 1))
                    after == SimAfter(sim_position, SubSeq(wires, 1, i))
                IN  /\ wires[i].code = "G1"
                    /\ before.x # after.x \/ before.y # after.y
                    => before.z >= safe_z /\ after.z >= safe_z]_vars

\* C29: every Move sent to the hardware commands a position inside the
\* workspace: the position the arm takes when it obeys the Move satisfies the
\* workspace limits
C29_MovesStayInWorkspace ==
    [][LET wires == SubSeq(sent_commands', Len(sent_commands) + 1,
                           Len(sent_commands'))
       IN  \A i \in 1..Len(wires) :
                wires[i].code = "G1" =>
                    validate(DEFAULT_WORKSPACE,
                             SimAfter(sim_position, SubSeq(wires, 1, i))) = "OK"]_vars

----------------------------------------------------------------------------
(* hardware/arm.py, hardware/suction.py, workflows/states.py and            *)
(* workflows/state_machine.py: each operation maps the record st, shaped    *)
(* as the variable sm, to the record it leaves                              *)

\* State.max_retries
MAX_RETRIES == 3

Abs(n) == IF n < 0 THEN -n ELSE n

\* the hooks of the PositionStore, of which the first total_hooks are stored
HOOKS ==
    <<Position(Mm(-100), Mm(200), Mm(20)), Position(Mm(-150), Mm(250), Mm(20))>>

\* PositionStore.get_hook
get_hook(st, index) ==
    IF 0 <= index /\ index < st.total_hooks THEN Some(HOOKS[index + 1]) ELSE None

\* a command issued to the hardware by the current state, the arm tracked at
\* `to` afterwards
Issued(st, name, to) ==
    [st EXCEPT !.issued = Append(@, [state |-> st.current_state, call |-> name,
                                     from |-> st.current_pos, to |-> to]),
               !.current_pos = to]

HwDone(st) == [st |-> st, raised |-> "none"]
HwFail(st, kind) == [st |-> st, raised |-> kind]

\* ArmController.move_to with _check_xy_interlock and is_at_safe_z (the
\* position_tolerance of ArmSettings is 2 mm); fails when the transport
\* raises on the command
arm_move_to(st, x, y, z, fails) ==
    LET cur == st.current_pos
        xy_changing == \/ Abs(x - cur.x) > Mm(1) \div 10
                       \/ Abs(y - cur.y) > Mm(1) \div 10
        is_at_safe_z == cur.z >= st.settings.safe_z - Mm(2)
        blocked == /\ xy_changing
                   /\ st.settings.require_safe_z_for_xy
                   /\ st.settings.safe_z > 0
                   /\ ~is_at_safe_z
    IN  IF blocked THEN HwFail(st, "SafetyError")
        ELSE IF fails THEN HwFail(st, "TransportError")
        ELSE HwDone(Issued(st, "move_to", Position(x, y, z)))

\* ArmController.move_z
arm_move_z(st, z, fails) ==
    IF fails THEN HwFail(st, "TransportError")
    ELSE HwDone(Issued(st, "move_z", with_z(st.current_pos, z)))

\* SuctionController.on, release and off
suction_call(st, name, fails) ==
    IF fails THEN HwFail(st, "TransportError")
    ELSE HwDone(Issued(st, name, st.current_pos))

\* State.on_enter of each state of states.py: the StateResult returned, or
\* the exception raised; hardware that fails raises on the first command of
\* the state
on_enter(st, fails) ==
    LET safe == st.store_safe_z
        hook == get_hook(st, st.current_hook_index)
        returned(r) == [st |-> r.st, raised |-> r.raised,
                        result |-> IF r.raised = "none" THEN "SUCCESS" ELSE "none"]
        failure == [st |-> st, raised |-> "none", result |-> "FAILURE"]
        attribute_error == [st |-> st, raised |-> "AttributeError", result |-> "none"]
    IN  CASE st.current_state = "LIFT_TO_SAFE_Z" ->
                IF st.pick = None THEN failure
                ELSE returned(arm_move_to(st, st.pick[1].x, st.pick[1].y, safe, fails))
          [] st.current_state = "ACTIVATE_SUCTION" ->
                returned(suction_call(st, "on", fails))
          [] st.current_state = "LOWER_TO_PICK" ->
                IF st.pick = None THEN attribute_error
                ELSE returned(arm_move_z(st, st.pick[1].z, fails))
          [] st.current_state = "LIFT_WITH_BLADE" ->
                IF hook = None THEN failure
                ELSE returned(arm_move_to(st, hook[1].x, hook[1].y, safe, fails))
          [] st.current_state = "LOWER_TO_HOOK" ->
                IF hook = None THEN attribute_error
                ELSE returned(arm_move_z(st, hook[1].z, fails))
          [] st.current_state = "RELEASE_BLADE" ->
                returned(suction_call(st, "release", fails))
          [] st.current_state = "LIFT_FROM_HOOK" ->
                Let(arm_move_z(st, safe, fails), LAMBDA r :
                    IF r.raised # "none" THEN returned(r)
                    ELSE returned([r EXCEPT !.st.current_hook_index = @ + 1]))
          [] st.current_state = "HOMING" ->
                Let(suction_call(st, "off", fails), LAMBDA r :
                    IF r.raised # "none" THEN returned(r)
                    ELSE Let(arm_move_z(r.st, safe, FALSE).st, LAMBDA s :
                            returned(HwDone(Issued(s, "home", REST_POSITION)))))
          [] OTHER -> [st |-> st, raised |-> "none", result |-> "SUCCESS"]

\* get_next_state that loops back once more after the last hook
get_next_state_one_more(st) ==
    CASE st.current_state = "LIFT_TO_SAFE_Z" -> "ACTIVATE_SUCTION"
      [] st.current_state = "ACTIVATE_SUCTION" -> "LOWER_TO_PICK"
      [] st.current_state = "LOWER_TO_PICK" -> "GRAB_BLADE"
      [] st.current_state = "GRAB_BLADE" -> "LIFT_WITH_BLADE"
      [] st.current_state = "LIFT_WITH_BLADE" -> "LOWER_TO_HOOK"
      [] st.current_state = "LOWER_TO_HOOK" -> "RELEASE_BLADE"
      [] st.current_state = "RELEASE_BLADE" -> "LIFT_FROM_HOOK"
      [] st.current_state = "LIFT_FROM_HOOK" ->
            IF st.current_hook_index <= st.total_hooks THEN "LIFT_TO_SAFE_Z"
            ELSE "HOMING"
      [] st.current_state = "HOMING" -> "CYCLE_COMPLETE"
      [] OTHER -> "None"

\* State.get_next_state of each state of states.py, "None" for no next state
get_next_state(st) ==
    CASE st.current_state = "LIFT_TO_SAFE_Z" -> "ACTIVATE_SUCTION"
      [] st.current_state = "ACTIVATE_SUCTION" -> "LOWER_TO_PICK"
      [] st.current_state = "LOWER_TO_PICK" -> "GRAB_BLADE"
      [] st.current_state = "GRAB_BLADE" -> "LIFT_WITH_BLADE"
      [] st.current_state = "LIFT_WITH_BLADE" -> "LOWER_TO_HOOK"
      [] st.current_state = "LOWER_TO_HOOK" -> "RELEASE_BLADE"
      [] st.current_state = "RELEASE_BLADE" -> "LIFT_FROM_HOOK"
      [] st.current_state = "LIFT_FROM_HOOK" ->
            IF st.current_hook_index < st.total_hooks THEN "LIFT_TO_SAFE_Z"
            ELSE "HOMING"
      [] st.current_state = "HOMING" -> "CYCLE_COMPLETE"
      [] OTHER -> "None"

\* on_error that allows one retry more
on_error_one_more(st) ==
    Let([st EXCEPT !.retry_count = @ + 1], LAMBDA s :
        [st |-> s,
         result |-> IF s.retry_count <= MAX_RETRIES THEN "RUNNING" ELSE "FAILURE"])

\* State.on_error
on_error(st) ==
    Let([st EXCEPT !.retry_count = @ + 1], LAMBDA s :
        [st |-> s,
         result |-> IF s.retry_count < MAX_RETRIES THEN "RUNNING" ELSE "FAILURE"])

\* StateMachine._transition_to a new State object
transition_to(st, state) ==
    [st EXCEPT !.history = IF st.current_state = "None" THEN @
                           ELSE Append(@, st.current_state),
               !.current_state = state,
               !.retry_count = 0,
               !.attempts = 0]

\* StateMachine.start
machine_start(st, initial_state) ==
    transition_to([st EXCEPT !.is_running = TRUE, !.is_stopped = FALSE,
                             !.is_paused = FALSE], initial_state)

\* StateMachine.stop
machine_stop(st) == [st EXCEPT !.is_stopped = TRUE, !.is_running = FALSE]

\* StateMachine.step from its try statement on: the action of the current
\* state, and the transition or the failure that follows
step_action(st, fails) ==
    Let(on_enter([st EXCEPT !.attempts = @ + 1], fails), LAMBDA e :
    Let(IF e.raised # "none" THEN on_error(e.st)
        ELSE [st |-> e.st, result |-> e.result], LAMBDA r :
        CASE r.result = "SUCCESS" ->
                Let(get_next_state(r.st), LAMBDA next_state :
                    IF next_state # "None"
                    THEN [st |-> transition_to(r.st, next_state),
                          result |-> "RUNNING"]
                    ELSE [st |-> [r.st EXCEPT !.is_running = FALSE],
                          result |-> "SUCCESS"])
          [] r.result = "FAILURE" ->
                [st |-> [r.st EXCEPT !.error_message = Some(r.st.current_state),
                                     !.is_running = FALSE],
                 result |-> "FAILURE"]
          [] OTHER -> r))

\* the checks StateMachine.step makes before it acts: what it returns at
\* once, or "act"
step_guard(st) ==
    IF st.current_state = "None" \/ ~st.is_running
    THEN [st |-> st, result |-> "SUCCESS"]
    ELSE IF st.is_stopped THEN [st |-> machine_stop(st), result |-> "FAILURE"]
    ELSE IF st.is_paused THEN [st |-> st, result |-> "PAUSED"]
    ELSE [st |-> st, result |-> "act"]

\* StateMachine.step
machine_step(st, fails) ==
    Let(step_guard(st), LAMBDA g :
        IF g.result = "act" THEN step_action(g.st, fails) ELSE g)

----------------------------------------------------------------------------
(* The state machine driven step by step and then by one thread in         *)
(* run_to_completion, with stop, pause and resume requests from other      *)
(* threads in between, over hardware that may fail                         *)

\* bound: start() and step() calls per behaviour
MaxMachineCalls == 8

InitSm ==
    /\ InitController
    /\ InitNoPlan
    /\ call = NoCall
    /\ InitSerial
    /\ InitWorkflow(TRUE)
    /\ InitAppState /\ InitCallers
    /\ \E settings \in {DefaultArmSettings, InterlockArmSettings},
          pick \in {None, Some(PICK_POINT)}, total_hooks \in 1..Len(HOOKS),
          reliable \in BOOLEAN :
            sm = [NewStateMachine(settings, pick, total_hooks)
                    EXCEPT !.reliable = reliable]

OtherMachine ==
    <<plan_vars, ctl_vars, call_vars, serial_vars, wf_vars, cycle_vars, queue_vars>>

\* StateMachine.start(create_pick_place_workflow())
MachineStart ==
    /\ sm.n < MaxMachineCalls
    /\ sm.pc = "idle"
    /\ sm' = [machine_start(sm, "LIFT_TO_SAFE_Z")
                EXCEPT !.result = "none", !.n = @ + 1]
    /\ UNCHANGED OtherMachine

\* whether the hardware fails on the next command
HardwareFails == IF sm.reliable THEN {FALSE} ELSE BOOLEAN

MachineStep ==
    /\ sm.n < MaxMachineCalls
    /\ sm.pc = "idle"
    /\ \E fails \in HardwareFails :
        \E r \in {machine_step(sm, fails)} :
            sm' = [r.st EXCEPT !.result = r.result, !.n = @ + 1]
    /\ UNCHANGED OtherMachine

MachineStop ==
    /\ sm' = machine_stop(sm)
    /\ UNCHANGED OtherMachine

\* StateMachine.pause
MachinePause ==
    /\ sm' = [sm EXCEPT !.is_paused = TRUE]
    /\ UNCHANGED OtherMachine

\* StateMachine.resume
MachineResume ==
    /\ sm' = [sm EXCEPT !.is_paused = FALSE]
    /\ UNCHANGED OtherMachine

\* one step of the thread inside StateMachine.run_to_completion: the loop
\* condition, the two checks of the loop body, the checks of step() and the
\* action of step(), each taken on what the other threads have left
run_to_completion(st, fails) ==
    LET return(s, result) == [s EXCEPT !.pc = "returned", !.returned = result]
        stepped(r) ==
            Let([r.st EXCEPT !.result = r.result], LAMBDA s :
                IF r.result \in {"SUCCESS", "FAILURE"} THEN return(s, r.result)
                ELSE [s EXCEPT !.pc = "while"])
    IN  CASE st.pc = "while" ->
                IF st.is_running THEN [st EXCEPT !.pc = "if_stopped"]
                ELSE return(st, "SUCCESS")
          [] st.pc = "if_stopped" ->
                IF st.is_stopped THEN return(st, "FAILURE")
                ELSE [st EXCEPT !.pc = "if_paused"]
          [] st.pc = "if_paused" ->
                IF st.is_paused THEN [st EXCEPT !.pc = "while"]
                ELSE [st EXCEPT !.pc = "step"]
          [] st.pc = "step" ->
                Let(step_guard(st), LAMBDA g :
                    IF g.result = "act" THEN [g.st EXCEPT !.pc = "on_enter"]
                    ELSE stepped(g))
          [] st.pc = "on_enter" ->
                stepped(step_action(
                    [st EXCEPT !.acted_after_stop = @ \/ st.is_stopped], fails))
          [] OTHER -> st

\* a thread calls run_to_completion() on the started machine
CallRunToCompletion ==
    /\ sm.current_state # "None"
    /\ sm.pc = "idle"
    /\ sm' = [sm EXCEPT !.pc = "while"]
    /\ UNCHANGED OtherMachine

RunToCompletion ==
    /\ sm.pc \in {"while", "if_stopped", "if_paused", "step", "on_enter"}
    /\ \E fails \in HardwareFails :
        \E s \in {run_to_completion(sm, fails)} : sm' = s
    /\ UNCHANGED OtherMachine

NextSm ==
    \/ MachineStart
    \/ MachineStep
    \/ MachineStop
    \/ MachinePause
    \/ MachineResume
    \/ CallRunToCompletion
    \/ RunToCompletion

SpecSm == InitSm /\ [][NextSm]_vars

\* start() and then run_to_completion() with no other thread about; the
\* thread inside run_to_completion keeps running
NextRun ==
    \/ MachineStart
    \/ CallRunToCompletion
    \/ RunToCompletion

SpecRun == InitSm /\ [][NextRun]_vars /\ WF_vars(RunToCompletion)

----------------------------------------------------------------------------
(* Properties of the state machine cycle *)

\* C30: in the state-machine cycle every arm move that changes X or Y is
\* issued with the tracked Z at or above the safe Z: the arm always lifts
\* before it moves sideways
C30_LiftBeforeSideways ==
    \A i \in 1..Len(sm.issued) :
        LET e == sm.issued[i]
        IN  e.from.x # e.to.x \/ e.from.y # e.to.y
            => e.from.z >= sm.store_safe_z

----------------------------------------------------------------------------
(* More properties of the planner *)

SafeMoveReturned ==
    plan_ret.method = "plan_safe_move" /\ plan_ret.raised = "none"

\* C31 as claimed: plan_safe_move never returns an empty sequence, and for a
\* current position equal to the target it returns one Wait and no Move,
\* whatever safe_z is
C31_OneWaitAtTarget ==
    SafeMoveReturned =>
        /\ plan_ret.commands # <<>>
        /\ plan_args.current = plan_args.target =>
                plan_ret.commands = <<WaitCommand>>

\* C31: plan_safe_move never returns an empty sequence, and for a current
\* position equal to the target and not below safe_z it returns one Wait and
\* no Move
C31_OneWaitAtTargetAboveSafeZ ==
    SafeMoveReturned =>
        /\ plan_ret.commands # <<>>
        /\ (/\ plan_args.current = plan_args.target
            /\ plan_args.current.z >= plan_args.safe_z) =>
                plan_ret.commands = <<WaitCommand>>

\* a safe move planned to where the arm already is, above safe_z
C31_Witness ==
    /\ SafeMoveReturned
    /\ plan_args.current = plan_args.target
    /\ plan_args.current.z > plan_args.safe_z
    /\ plan_ret.commands = <<WaitCommand>>

----------------------------------------------------------------------------
(* More properties of the workflow *)

\* C32: in a cycle run over a transport, suction on (M1000) has been sent
\* before every Z-only move that lowers the arm to pick.z
C32_SuctionBeforeLowering ==
    RanFromConfiguredIdle /\ wf.has_transport =>
        \A j \in (wf_last.pre.nsent + 1)..Len(sent_commands) :
            /\ sent_commands[j].code = "G1"
            /\ sent_commands[j].x = None /\ sent_commands[j].y = None
            /\ sent_commands[j].z = FmtOpt(Some(wf.pick_position[1].z))
            /\ wf.pick_position[1].z < safe_z
            => \E i \in (wf_last.pre.nsent + 1)..(j - 1) :
                    sent_commands[i].code = "M1000"

\* C33: run() on a workflow configured with a pick or a place position
\* outside the workspace ends in Error with no command sent
C33_InvalidPositionNoIO ==
    (/\ RanFromConfiguredIdle
     /\ wf.has_transport
     /\ \/ validate(DEFAULT_WORKSPACE, wf.pick_position[1]) # "OK"
        \/ validate(DEFAULT_WORKSPACE, wf.place_position[1]) # "OK")
    => /\ wf.state = "ERROR"
       /\ Len(sent_commands) = wf_last.pre.nsent


----------------------------------------------------------------------------
(* More properties of the controller *)

\* C40: in every state reached by controller operations and stop or
\* emergency-stop requests, carrying_blade implies suction_active
C40_CarryingImpliesSuction == carrying_blade => suction_active

\* C40, amended: the controller comes to hold a blade with the pump off only
\* by suction_off, called directly or by a stop or emergency-stop request
C40_PumpOffWhileCarryingOnlyBySuctionOff ==
    [][(carrying_blade' /\ ~suction_active')
        => \/ carrying_blade /\ ~suction_active
           \/ last'.op \in {"suction_off", "emergency_stop"}]_vars

C40_Witness ==
    /\ last.op = "emergency_stop"
    /\ last.pre.carrying_blade /\ last.pre.suction_active
    /\ carrying_blade /\ ~suction_active


----------------------------------------------------------------------------
(* Properties of run_to_completion *)

\* run_to_completion drives the machine from start() on, and every attempt
\* of the current state has raised
EveryAttemptRaised(st) ==
    st.n = 1 /\ st.attempts >= 1 /\ st.attempts = st.retry_count

\* C37: a state whose action raises on every attempt is attempted exactly
\* max_retries times by run_to_completion; after the last attempt the
\* machine is not running, error_message names the failing state,
\* run_to_completion has returned FAILURE, and the machine stays in the
\* failing state
C37_ExactlyMaxRetries ==
    [][/\ EveryAttemptRaised(sm') =>
            /\ sm'.attempts <= MAX_RETRIES
            /\ sm'.attempts = MAX_RETRIES =>
                    /\ ~sm'.is_running
                    /\ sm'.error_message = Some(sm'.current_state)
                    /\ sm'.pc = "returned" /\ sm'.returned = "FAILURE"
            /\ sm'.pc = "returned" /\ ~sm'.is_stopped =>
                    sm'.attempts = MAX_RETRIES
       /\ EveryAttemptRaised(sm) /\ sm.attempts = MAX_RETRIES =>
            /\ sm'.current_state = sm.current_state
            /\ sm'.history = sm.history
            /\ sm'.attempts = sm.attempts]_vars

C37_Witness ==
    /\ EveryAttemptRaised(sm)
    /\ sm.attempts = MAX_RETRIES
    /\ ~sm.is_stopped
    /\ sm.returned = "FAILURE"
    /\ sm.error_message = Some("LOWER_TO_HOOK")

\* C38: run_to_completion returns SUCCESS only when a state with no next
\* state has returned SUCCESS and stop() was not called before; no state
\* action is started after a stop()
C38_SuccessOnlyWhenComplete ==
    [][/\ sm.pc # "returned" /\ sm'.pc = "returned" /\ sm'.returned = "SUCCESS"
            => /\ ~sm.is_stopped
               /\ get_next_state(sm') = "None"
               /\ sm'.attempts >= 1 /\ sm'.retry_count = 0
       /\ ~sm'.acted_after_stop]_vars

\* the blades released so far, by where the arm was
Releases(st) == SelectSeq(st.issued, LAMBDA e : e.call = "release")

Homings(st) == SelectSeq(st.issued, LAMBDA e : e.call = "home")

\* a pick position and hooks stored, hardware that never fails, the arm
\* settings of ArmSettings()
ReliableRun(st) ==
    st.reliable /\ st.settings = DefaultArmSettings /\ st.pick # None

HookOrder(st) ==
    Let(Releases(st), LAMBDA released :
        /\ st.current_hook_index <= st.total_hooks
        /\ Len(released) <= st.total_hooks
        /\ \A i \in 1..Len(released) : released[i].from = HOOKS[i]
        /\ st.pc = "returned" =>
                /\ st.returned = "SUCCESS"
                /\ Len(released) = st.total_hooks
                /\ Len(Homings(st)) = 1
                /\ st.issued[Len(st.issued)].call = "home")

\* C39: with a pick position, N hooks and hardware that never fails,
\* run_to_completion after start(create_pick_place_workflow()) returns, with
\* SUCCESS, after releasing exactly N times, at hooks 0 .. N-1 in that order,
\* and then homing; current_hook_index never exceeds N
C39_EveryHookOnce ==
    /\ [](ReliableRun(sm) => HookOrder(sm))
    /\ (ReliableRun(sm) /\ sm.pc = "while") ~> (sm.pc = "returned")

C39_Witness ==
    /\ ReliableRun(sm)
    /\ sm.total_hooks = 2
    /\ sm.pc = "returned" /\ sm.returned = "SUCCESS"
    /\ Len(Releases(sm)) = 2
    /\ sm.current_hook_index = 2


----------------------------------------------------------------------------
(* api/routes/cycles.py: the full cycle, run by request threads that share *)
(* the AppState and the controller                                         *)

\* the controller of a connected and homed arm
HomedController ==
    home([position |-> REST_POSITION, is_homed |-> FALSE,
          carrying_blade |-> FALSE, suction_active |-> FALSE,
          motors_enabled |-> TRUE, safe_z |-> Mm(50),
          pending |-> <<>>, history |-> <<>>, sent_commands |-> <<>>,
          sim_position |-> REST_POSITION, sim_suction |-> "off",
          faults |-> <<>>], "ok").st

\* one step of a thread inside run_full_cycle, taken on the flags a and the
\* controller c as the other threads have left them: the checks up to
\* "Cycle already running", sync_position, the flags set, then the loop over
\* the hooks with its pause loop, pick_blade and place_blade, the except
\* clause and the finally clause
run_full_cycle(a, r, c, lk) ==
    LET goes(to) == [app |-> a, req |-> [r EXCEPT !.pc = to], ctl |-> c]
        called(o, to) ==
            [app |-> a, ctl |-> o.st,
             req |-> [r EXCEPT !.pc = IF o.raised = "none" THEN to ELSE "except"]]
        cleared == [a EXCEPT !.is_running = FALSE, !.is_paused = FALSE]
    IN  CASE r.pc = "idle" ->
                IF ~c.is_homed THEN goes("done")
                ELSE IF a.is_running THEN goes("rejected")
                ELSE goes("sync")
          [] r.pc = "sync" ->
                Let(sync_position(c, lk), LAMBDA o :
                    [app |-> a, ctl |-> o.st,
                     req |-> [r EXCEPT !.pc = IF o.raised = "none" THEN "set"
                                              ELSE "done"]])
          [] r.pc = "set" ->
                [app |-> [a EXCEPT !.is_running = TRUE, !.is_paused = FALSE],
                 req |-> [r EXCEPT !.pc = "for", !.i = 0], ctl |-> c]
          [] r.pc = "for" ->
                IF r.i >= Len(HOOKS) \/ ~a.is_running THEN goes("finally")
                ELSE goes("while")
          [] r.pc = "while" ->
                IF a.is_paused THEN goes("sleep") ELSE goes("pick")
          [] r.pc = "sleep" ->
                IF ~a.is_running THEN goes("pick") ELSE goes("while")
          [] r.pc = "pick" ->
                called(pick_blade(c, PICK_POINT, lk), "place")
          [] r.pc = "place" ->
                Let(place_blade(c, HOOKS[r.i + 1], lk), LAMBDA o :
                    [app |-> a, ctl |-> o.st,
                     req |-> IF o.raised = "none"
                             THEN [r EXCEPT !.pc = "for", !.i = @ + 1]
                             ELSE [r EXCEPT !.pc = "except"]])
          [] r.pc = "except" ->
                [app |-> a, ctl |-> suction_off(c, lk).st,
                 req |-> [r EXCEPT !.pc = "finally"]]
          [] r.pc = "finally" ->
                [app |-> cleared,
                 ctl |-> IF c.suction_active THEN suction_off(c, lk).st ELSE c,
                 req |-> [r EXCEPT !.pc = "done"]]
          [] OTHER -> goes(r.pc)

\* pause_cycle
pause_cycle(a) ==
    IF a.is_running THEN [a EXCEPT !.is_paused = ~@] ELSE a

\* one step of the thread inside stop_cycle: the two flags cleared, then
\* suction_off on the controller; rq are the request threads, of which those
\* waiting in the pause loop of a later iteration are marked
stop_cycle(a, rq, c, lk) ==
    IF rq["stop"].pc = "idle"
    THEN [app |-> [a EXCEPT !.is_running = FALSE, !.is_paused = FALSE],
          ctl |-> c,
          req |-> [t \in DOMAIN rq |->
                    IF t = "stop" THEN [rq[t] EXCEPT !.pc = "suction_off"]
                    ELSE IF rq[t].pc \in {"while", "sleep"} /\ a.is_paused
                                /\ rq[t].i >= 1
                         THEN [rq[t] EXCEPT !.stop_while_paused = TRUE]
                         ELSE rq[t]]]
    ELSE [app |-> a, ctl |-> suction_off(c, lk).st,
          req |-> [rq EXCEPT !["stop"].pc = "done"]]

\* the controller and its collaborators as a thread has left them
ControllerBecomes(s) ==
    /\ position' = s.position
    /\ is_homed' = s.is_homed
    /\ carrying_blade' = s.carrying_blade
    /\ suction_active' = s.suction_active
    /\ motors_enabled' = s.motors_enabled
    /\ safe_z' = s.safe_z
    /\ pending' = s.pending
    /\ history' = s.history
    /\ sent_commands' = s.sent_commands
    /\ sim_position' = s.sim_position
    /\ sim_suction' = s.sim_suction
    /\ UNCHANGED <<link, last, nops>>

InitHomed ==
    /\ \E s \in {HomedController} :
            /\ position = s.position
            /\ is_homed = s.is_homed
            /\ carrying_blade = s.carrying_blade
            /\ suction_active = s.suction_active
            /\ motors_enabled = s.motors_enabled
            /\ safe_z = s.safe_z
            /\ pending = s.pending
            /\ history = s.history
            /\ sent_commands = s.sent_commands
            /\ sim_position = s.sim_position
            /\ sim_suction = s.sim_suction
    /\ link = "ok"
    /\ last = NoOperation
    /\ nops = 0
    /\ InitNoPlan
    /\ call = NoCall
    /\ InitSerial
    /\ InitWorkflow(TRUE)
    /\ InitStateMachine

InitCycle == InitHomed /\ InitAppState /\ InitCallers

OtherCycle ==
    <<plan_vars, call_vars, serial_vars, wf_vars, sm_vars, queue_vars>>

\* a thread in run_full_cycle takes its next step
RunFullCycle(t) ==
    /\ req[t].pc \notin {"done", "rejected"}
    /\ \E o \in {run_full_cycle(app, req[t], Cur, link)} :
            /\ app' = o.app
            /\ req' = [req EXCEPT ![t] = o.req]
            /\ ControllerBecomes(o.ctl)
    /\ UNCHANGED OtherCycle

PauseCycle ==
    /\ app' = pause_cycle(app)
    /\ UNCHANGED <<req, ctl_vars, OtherCycle>>

StopCycle ==
    /\ req["stop"].pc # "done"
    /\ \E o \in {stop_cycle(app, req, Cur, link)} :
            /\ app' = o.app
            /\ req' = o.req
            /\ ControllerBecomes(o.ctl)
    /\ UNCHANGED OtherCycle

NextCycle ==
    \/ \E t \in RunRequests : RunFullCycle(t)
    \/ PauseCycle
    \/ StopCycle

SpecCycle == InitCycle /\ [][NextCycle]_vars

----------------------------------------------------------------------------
(* Properties of the full cycle *)

\* the thread t of run_full_cycle starts a pick_blade or a place_blade
StartsPickOrPlace(t) ==
    /\ req[t].pc \in {"pick", "place"}
    /\ req'[t].pc # req[t].pc

\* C34: when stop is requested while the cycle is paused between two
\* iterations, the loop starts no further pick_blade or place_blade
C34_NoPickAfterStopWhilePaused ==
    [][\A t \in RunRequests :
            req[t].stop_while_paused => ~StartsPickOrPlace(t)]_vars

\* the thread t has set is_running and has not yet left run_full_cycle
CycleActive(t) ==
    req[t].pc \in {"for", "while", "sleep", "pick", "place", "except", "finally"}

\* C35: a run_full_cycle request that arrives while another cycle has not
\* yet returned is rejected, so that at most one cycle is active
C35_OneCycleAtATime ==
    [][\A t \in RunRequests :
            /\ req[t].pc = "idle" /\ req'[t].pc # "idle"
            /\ \E u \in RunRequests \ {t} : CycleActive(u)
            => req'[t].pc = "rejected"]_vars


----------------------------------------------------------------------------
(* Two threads in operations of one controller: the cycle in pick_blade    *)
(* and then place_blade, a stop request in suction_off. Each send is one   *)
(* step; the threads share CommandQueue._pending; the scheduler switches   *)
(* between the threads at most MaxSwitches times                           *)

\* bound: switches from one thread to the other per behaviour
MaxSwitches == 3

\* the operations each thread calls, in order
Operations ==
    [cycle |-> <<"pick_blade", "place_blade">>, stop |-> <<"suction_off">>]

\* pick_blade, place_blade and suction_off up to their call of execute_all:
\* the commands they enqueue, or what they raise
begin_operation(c, op) ==
    CASE op = "pick_blade" ->
            Let(require_homed(c, "ok"), LAMBDA g :
                IF g.raised # "none" THEN [commands |-> <<>>, raised |-> g.raised]
                ELSE plan_pick_sequence(c.safe_z, c.position, PICK_POINT))
      [] op = "place_blade" ->
            Let(require_homed(c, "ok"), LAMBDA g :
                IF g.raised # "none" THEN [commands |-> <<>>, raised |-> g.raised]
                ELSE IF ~c.carrying_blade
                THEN [commands |-> <<>>, raised |-> "RuntimeError"]
                ELSE plan_place_sequence(c.safe_z, c.position, HOOKS[1]))
      [] OTHER ->
            [commands |-> <<SuctionCommand("release"), SuctionCommand("off")>>,
             raised |-> "none"]

\* pick_blade, place_blade and suction_off after execute_all has returned
end_operation(c, op) ==
    CASE op = "pick_blade" ->
            [c EXCEPT !.position = with_z(PICK_POINT, c.safe_z),
                      !.carrying_blade = TRUE, !.suction_active = TRUE]
      [] op = "place_blade" ->
            [c EXCEPT !.position = with_z(HOOKS[1], c.safe_z),
                      !.carrying_blade = FALSE, !.suction_active = FALSE]
      [] OTHER -> [c EXCEPT !.suction_active = FALSE]

\* one round of the loop of CommandQueue.execute_all, `it` the index of the
\* list iterator over _pending: the next command is sent and recorded, or,
\* with the iterator past the end of the list, the list is cleared
execute_all_next(c, it, lk) ==
    IF it < Len(c.pending)
    THEN Let(execute_one(c, c.pending[it + 1], lk), LAMBDA r :
            [st |-> [r.st EXCEPT !.history = Append(@, r.result)],
             it |-> it + 1, cleared |-> FALSE])
    ELSE [st |-> [c EXCEPT !.pending = <<>>], it |-> it, cleared |-> TRUE]

OtherQueue ==
    <<plan_vars, call_vars, serial_vars, wf_vars, sm_vars, cycle_vars>>

\* the scheduler lets the thread t run
Scheduled(t) == tags.running \in {"none", t} \/ tags.switches < MaxSwitches

\* tags with the step of the thread t counted
Switched(t) ==
    [tags EXCEPT !.running = t,
                 !.switches = IF tags.running \in {"none", t} THEN @ ELSE @ + 1]

\* the thread t calls its next operation, which enqueues its commands
CallOperation(t) ==
    /\ Scheduled(t)
    /\ thr[t].pc \in {"idle", "returned"}
    /\ \E n \in 1..Len(Operations[t]) :
        /\ thr[t].op = (IF n = 1 THEN "none" ELSE Operations[t][n - 1])
        /\ \E plan \in {begin_operation(Cur, Operations[t][n])} :
            /\ thr' = [thr EXCEPT ![t] =
                        [op |-> Operations[t][n],
                         pc |-> IF plan.raised = "none" THEN "execute_all"
                                ELSE "raised",
                         it |-> 0, planned |-> Len(plan.commands)]]
            /\ tags' = [Switched(t) EXCEPT !.pending = @ \o
                            [k \in 1..Len(plan.commands) |->
                                [by |-> t, op |-> Operations[t][n], k |-> k]]]
            /\ ControllerBecomes(enqueue_many(Cur, plan.commands))
    /\ UNCHANGED OtherQueue

\* the thread t, inside execute_all, sends the next command or clears the
\* list and returns from its operation
ExecuteAllNext(t) ==
    /\ Scheduled(t)
    /\ thr[t].pc = "execute_all"
    /\ \E r \in {execute_all_next(Cur, thr[t].it, link)} :
        IF r.cleared
        THEN /\ thr' = [thr EXCEPT ![t].pc = "returned"]
             /\ tags' = [Switched(t) EXCEPT !.pending = <<>>]
             /\ ControllerBecomes(end_operation(r.st, thr[t].op))
        ELSE /\ thr' = [thr EXCEPT ![t].it = r.it]
             /\ tags' = [Switched(t) EXCEPT !.sent = Append(@, tags.pending[r.it])]
             /\ ControllerBecomes(r.st)
    /\ UNCHANGED OtherQueue

NextQueue ==
    \/ \E t \in Callers : CallOperation(t)
    \/ \E t \in Callers : ExecuteAllNext(t)

SpecQueue == InitCycle /\ [][NextQueue]_vars

\* the commands of the thread t's operation op sent so far
SentOf(t, op) ==
    {i \in 1..Len(tags.sent) : tags.sent[i].by = t /\ tags.sent[i].op = op}

\* C36: with two operations running concurrently on one controller every
\* enqueued command is sent exactly once, and the commands of each operation
\* are sent contiguously in their planned order
C36_EachCommandSentOnceInOrder ==
    /\ \A i, j \in 1..Len(tags.sent) : i # j => tags.sent[i] # tags.sent[j]
    /\ \A i \in 1..Len(tags.sent) :
            tags.sent[i].k > 1 =>
                /\ i > 1
                /\ tags.sent[i - 1] = [tags.sent[i] EXCEPT !.k = @ - 1]
    /\ \A t \in Callers :
            thr[t].pc = "returned" =>
                Cardinality(SentOf(t, thr[t].op)) = thr[t].planned

====
